---- MODULE Spec2Model ----
(***************************************************************************)
(* A model of the fraud-scoring core of the healthcare fraud detection     *)
(* backend: the model artifact (app/ml/fraud_model.py), the feature        *)
(* extractor (app/ml/feature_extraction.py), the CSV loader                *)
(* (app/db/memgraph_db.py) and the scoring service                         *)
(* (app/core/fraud_detection_service.py).                                  *)
(*                                                                         *)
(* A pandas DataFrame is a sequence of columns, each a record              *)
(* [name, vals] with one value per row.  A probability is an integer in    *)
(* units of 1/10000.  A Python None is the record [kind |-> "None"].       *)
(***************************************************************************)
EXTENDS Integers, Sequences, FiniteSets, TLC

VARIABLES
    model,              \* FraudDetectionModel.model (the classifier)
    scaler,             \* FraudDetectionModel.scaler
    feature_names,      \* FraudDetectionModel.feature_names
    training_metadata,  \* FraudDetectionModel.training_metadata
    model_path,         \* FraudDetectionModel.model_path
    files,              \* the pickle files on disk, by path
    saved_objects,      \* history: the object each file was last saved from
    clock,              \* datetime.now(): counts the training runs started
    train,              \* the train() call in flight: its position and locals
    completed,          \* history: the artifacts of completed runs and loads
    pred,               \* the predict_proba() call in flight
    data_dir,           \* the CSV files under data/, by file name
    graphs,             \* the nx.Graph objects, by identity
    data_loader,        \* memgraph_db._data_loader, the singleton CSVDataLoader
    fraud_service,      \* fraud_detection_service._fraud_service
    load,               \* the load_data() call in flight
    reader,             \* the FraudFeatureExtractor.__init__ in flight
    utcnow,             \* datetime.utcnow(), in ticks
    refresh_tokens,     \* the committed rows of the refresh_tokens table
    requests,           \* the authentication requests, by worker thread
    issued,             \* history: the tokens handed to clients
    accepted,           \* history: the tokens /auth/refresh answered 200 to
    call                \* the last call made and what it returned or raised

modelVars == <<model, scaler, feature_names, training_metadata, model_path>>
diskVars == <<files, saved_objects>>
trainVars == <<clock, train, completed>>
\* everything but the model object's fields and the last call
storeVars == <<data_dir, graphs, data_loader, fraud_service, load, reader>>
authVars == <<utcnow, refresh_tokens, requests, issued, accepted>>
restVars == <<diskVars, authVars, authVars, trainVars, pred, storeVars>>
vars == <<modelVars, restVars, call>>

----------------------------------------------------------------------------
(* Bounds of the model *)

MaxCols == 2        \* columns of a feature matrix handed to the model
NumRows == 1        \* rows of a feature matrix
MaxProb == 10000    \* probability 1.0 in units of 1/10000
MaxTrains == 2      \* train() calls in one behaviour

FeatureCols == {"claim_amount", "patient_age", "is_night", "graph_distance"}
FeatureVals == {0, 7}

\* a missing value (np.nan) in a column of numbers
NaN == -1000000

\* a feature value is an integer in the unit of its column: a rate is held in
\* units of 1/MaxProb like a probability, so is a frequency, every other
\* feature in units of 1
Unit(feature) ==
    IF feature \in {"provider_fraud_rate", "patient_claim_frequency"} THEN MaxProb ELSE 1

----------------------------------------------------------------------------
(* Python values *)

None == [kind |-> "None"]
Some(v) == [kind |-> "Some", v |-> v]
IsNone(x) == x.kind = "None"

Returned(v) == [raised |-> "", value |-> v]
Raised(e) == [raised |-> e, value |-> <<>>]

Range(s) == {s[i] : i \in 1..Len(s)}

RECURSIVE SumSeq(_)
SumSeq(s) == IF s = <<>> THEN 0 ELSE Head(s) + SumSeq(Tail(s))

\* the sequences without repetition over S, of length at most n
RECURSIVE DistinctSeqs(_, _)
DistinctSeqs(S, n) ==
    IF n = 0 THEN {<<>>}
    ELSE LET shorter == DistinctSeqs(S, n - 1)
             longer == {Append(s, x) : s \in shorter, x \in S}
         IN  shorter \cup {t \in longer : \A i, j \in 1..Len(t) : i < j => t[i] # t[j]}

----------------------------------------------------------------------------
(* DataFrames *)

Columns(X) == [i \in 1..Len(X) |-> X[i].name]
HasColumn(X, col) == \E i \in 1..Len(X) : X[i].name = col
NRows(X) == IF X = <<>> THEN 0 ELSE Len(X[1].vals)
ConstColumn(X, col, v) == [name |-> col, vals |-> [r \in 1..NRows(X) |-> v]]

\* X[col] = v : overwrite the column when present, else append it
SetColumn(X, col, v) ==
    IF HasColumn(X, col)
    THEN [i \in 1..Len(X) |-> IF X[i].name = col THEN ConstColumn(X, col, v) ELSE X[i]]
    ELSE Append(X, ConstColumn(X, col, v))

\* X[[names]] : for each name in order, every column of X carrying it
RECURSIVE SelectColumns(_, _)
SelectColumns(X, names) ==
    IF names = <<>> THEN <<>>
    ELSE SelectSeq(X, LAMBDA c : c.name = Head(names)) \o SelectColumns(X, Tail(names))

Schemas == DistinctSeqs(FeatureCols, MaxCols) \ {<<>>}

\* the feature matrices the extractor can hand over: at least one column,
\* distinct column names
Matrices ==
    UNION {{[i \in 1..Len(cols) |-> [name |-> cols[i], vals |-> v[i]]] :
                v \in [1..Len(cols) -> [1..NumRows -> FeatureVals]]} :
            cols \in Schemas}

----------------------------------------------------------------------------
(* FraudDetectionModel: alignment and inference *)

\* the loop of _align_features: add each missing schema column as zeros
RECURSIVE AddMissingColumns(_, _)
AddMissingColumns(X_aligned, names) ==
    IF names = <<>> THEN X_aligned
    ELSE AddMissingColumns(
             IF HasColumn(X_aligned, Head(names)) THEN X_aligned
             ELSE SetColumn(X_aligned, Head(names), 0),
             Tail(names))

\* _align_features mutated: keeps X's own column order
align_features_positional(names, X) ==
    LET X_aligned == AddMissingColumns(X, names)
    IN  [X |-> X,
         X_aligned |-> SelectSeq(X_aligned, LAMBDA c : c.name \in Range(names))]

\* _align_features mutated: missing columns are not added
align_features_no_fill(names, X) ==
    [X |-> X, X_aligned |-> SelectColumns(X, names)]

\* _align_features mutated: every schema column is written, present or not
align_features_overwrite(names, X) ==
    [X |-> X, X_aligned |-> [i \in 1..Len(names) |-> ConstColumn(X, names[i], 0)]]

\* _align_features mutated: works on X itself instead of a copy
align_features_in_place(names, X) ==
    LET X_aligned == AddMissingColumns(X, names)
    IN  [X |-> X_aligned, X_aligned |-> SelectColumns(X_aligned, names)]

\* _align_features(X): X_aligned is the matrix returned, X the caller's matrix
\* after the call (the loop writes to a copy)
align_features(names, X) ==
    LET X_copy == X
        X_aligned == AddMissingColumns(X_copy, names)
    IN  [X |-> X, X_aligned |-> SelectColumns(X_aligned, names)]

\* StandardScaler.transform: needs a fitted scaler and the fitted width
ScalerTransform(sc, X_aligned) ==
    IF ~sc.fitted THEN Raised("NotFittedError")
    ELSE IF Len(X_aligned) # Len(sc.mean) THEN Raised("ValueError: n_features")
    ELSE Returned([i \in 1..Len(X_aligned) |->
                      [r \in 1..NRows(X_aligned) |-> X_aligned[i].vals[r] - sc.mean[i]]])

\* the classifier's probability of fraud for row r of a scaled matrix
RowProba(clf, X_scaled, r) ==
    (clf.bias + SumSeq([i \in 1..Len(X_scaled) |-> i * X_scaled[i][r]])) % (MaxProb + 1)

\* GradientBoostingClassifier.predict_proba(...)[:, 1]
ClassifierProba(clf, X_scaled) ==
    IF ~clf.fitted THEN Raised("NotFittedError")
    ELSE IF Len(X_scaled) # clf.n_features THEN Raised("ValueError: n_features")
    ELSE Returned([r \in 1..Len(X_scaled[1]) |-> RowProba(clf, X_scaled, r)])

\* GradientBoostingClassifier.predict: the more probable class
ClassifierPredict(clf, X_scaled) ==
    LET p == ClassifierProba(clf, X_scaled)
    IN  IF p.raised # "" THEN p
        ELSE Returned([r \in 1..Len(p.value) |-> IF 2 * p.value[r] > MaxProb THEN 1 ELSE 0])

\* what a call of predict or predict_proba did: its outcome, the caller's X
\* after it, and the matrices built on the way (<<>> when not reached)
Outcome(out, X, X_aligned, X_scaled) ==
    [out |-> out, X |-> X, X_aligned |-> X_aligned, X_scaled |-> X_scaled]

\* predict mutated: the classifier is not checked
predict_unchecked(self, X) ==
    IF IsNone(self.scaler) THEN Outcome(Raised("ValueError: Scaler not available"), X, <<>>, <<>>)
    ELSE IF IsNone(self.feature_names) \/ IsNone(self.model)
    THEN Outcome(Raised("TypeError"), X, <<>>, <<>>)
    ELSE LET a == align_features(self.feature_names.v, X)
             t == ScalerTransform(self.scaler.v, a.X_aligned)
         IN  IF t.raised # "" THEN Outcome(t, a.X, a.X_aligned, <<>>)
             ELSE Outcome(ClassifierPredict(self.model.v, t.value), a.X, a.X_aligned, t.value)

\* FraudDetectionModel.predict(X)
predict(self, X) ==
    IF IsNone(self.model)
    THEN Outcome(Raised("ValueError: Model not trained or loaded"), X, <<>>, <<>>)
    ELSE IF IsNone(self.scaler)
    THEN Outcome(Raised("ValueError: Scaler not available"), X, <<>>, <<>>)
    ELSE IF IsNone(self.feature_names)
    THEN Outcome(Raised("TypeError"), X, <<>>, <<>>)
    ELSE LET a == align_features(self.feature_names.v, X)
             t == ScalerTransform(self.scaler.v, a.X_aligned)
         IN  IF t.raised # "" THEN Outcome(t, a.X, a.X_aligned, <<>>)
             ELSE Outcome(ClassifierPredict(self.model.v, t.value), a.X, a.X_aligned, t.value)

\* FraudDetectionModel.predict_proba(X)
predict_proba(self, X) ==
    IF IsNone(self.model)
    THEN Outcome(Raised("ValueError: Model not trained or loaded"), X, <<>>, <<>>)
    ELSE IF IsNone(self.scaler)
    THEN Outcome(Raised("ValueError: Scaler not available"), X, <<>>, <<>>)
    ELSE IF IsNone(self.feature_names)
    THEN Outcome(Raised("TypeError"), X, <<>>, <<>>)
    ELSE LET a == align_features(self.feature_names.v, X)
             t == ScalerTransform(self.scaler.v, a.X_aligned)
         IN  IF t.raised # "" THEN Outcome(t, a.X, a.X_aligned, <<>>)
             ELSE Outcome(ClassifierProba(self.model.v, t.value), a.X, a.X_aligned, t.value)

\* the model object as it stands
Self ==
    [model |-> model, scaler |-> scaler, feature_names |-> feature_names,
     training_metadata |-> training_metadata]

----------------------------------------------------------------------------
(* Artifacts: what a completed training run leaves in the object *)

\* a fitted StandardScaler: one mean per training column
FittedScaler(run, names) ==
    [run |-> run, fitted |-> TRUE, mean |-> [i \in 1..Len(names) |-> (run + i) % 3]]

\* a fitted GradientBoostingClassifier
FittedClassifier(run, names, bias) ==
    [run |-> run, fitted |-> TRUE, n_features |-> Len(names), bias |-> bias,
     feature_importances |-> [i \in 1..Len(names) |-> ((i + run) % Len(names)) + 1]]

\* the metadata train() stores
Metadata(run, names) ==
    [trained_at |-> run, num_features |-> Len(names), has_metrics |-> TRUE]

\* training_metadata = {}
EmptyMetadata == [trained_at |-> 0, num_features |-> 0, has_metrics |-> FALSE]

\* StandardScaler() and GradientBoostingClassifier(...) before fit
NewScaler(run) == [run |-> run, fitted |-> FALSE, mean |-> <<>>]
NewClassifier(run) ==
    [run |-> run, fitted |-> FALSE, n_features |-> 0, bias |-> 0,
     feature_importances |-> <<>>]

\* the three parts of an artifact an inference uses
Artifact(self) ==
    [model |-> self.model, scaler |-> self.scaler, feature_names |-> self.feature_names]

NoCall == [op |-> "none", arg |-> <<>>, res |-> <<>>]

Idle == [pc |-> "idle"]

Workers == {1, 2}       \* the threads of the pool that serve requests

\* an empty auth database, no request in flight
AuthIdle ==
    /\ utcnow = 1
    /\ refresh_tokens = <<>>
    /\ requests = [r \in Workers |-> Idle]
    /\ issued = {}
    /\ accepted = <<>>

----------------------------------------------------------------------------
(* FraudRiskAssessor *)

CriticalMin == 8000     \* prob >= 0.8
HighMin == 6000         \* prob >= 0.6
MediumMin == 4000       \* prob >= 0.4
LowMin == 2000          \* prob >= 0.2
TopFeatureCount == 10   \* feature_importance.head(10)
ScannedFeatures == 5    \* top_features[:5]
MaxRiskFactors == 3     \* risk_factors[:3]

Min(a, b) == IF a <= b THEN a ELSE b
Max(a, b) == IF a >= b THEN a ELSE b
Abs(a) == IF a >= 0 THEN a ELSE 0 - a
Prefix(s, n) == SubSeq(s, 1, Min(n, Len(s)))

\* the risk-level chain mutated: every band is open at its lower bound
risk_level_open(prob) ==
    IF prob > CriticalMin THEN "CRITICAL"
    ELSE IF prob > HighMin THEN "HIGH"
    ELSE IF prob > MediumMin THEN "MEDIUM"
    ELSE IF prob > LowMin THEN "LOW"
    ELSE "MINIMAL"

\* the risk-level chain of assess_claims
risk_level(prob) ==
    IF prob >= CriticalMin THEN "CRITICAL"
    ELSE IF prob >= HighMin THEN "HIGH"
    ELSE IF prob >= MediumMin THEN "MEDIUM"
    ELSE IF prob >= LowMin THEN "LOW"
    ELSE "MINIMAL"

\* sort_values('importance', ascending=False) over (feature, importance) rows
RECURSIVE SortByImportance(_)
SortByImportance(rows) ==
    IF rows = {} THEN <<>>
    ELSE LET top == CHOOSE a \in rows : \A b \in rows : a.importance >= b.importance
         IN  <<top>> \o SortByImportance(rows \ {top})

\* FraudDetectionModel.get_feature_importance()
get_feature_importance(self) ==
    IF IsNone(self.model) THEN Raised("ValueError: Model not trained or loaded")
    ELSE IF ~self.model.v.fitted
    THEN Raised("ValueError: Model does not have feature importances")
    ELSE IF IsNone(self.feature_names) THEN Raised("ValueError: DataFrame")
    ELSE IF Len(self.feature_names.v) # Len(self.model.v.feature_importances)
    THEN Raised("ValueError: DataFrame")
    ELSE Returned(SortByImportance(
             {[feature |-> self.feature_names.v[i],
               importance |-> self.model.v.feature_importances[i]] :
                  i \in 1..Len(self.feature_names.v)}))

\* the risk factors of row i: the scanned top features present in X whose
\* value is significant, abs(value) > 0.1
RECURSIVE RiskFactors(_, _, _)
RiskFactors(X, i, features) ==
    IF features = <<>> THEN <<>>
    ELSE LET feature == Head(features)
             rest == RiskFactors(X, i, Tail(features))
         IN  IF HasColumn(X, feature)
                /\ 10 * Abs(X[CHOOSE k \in 1..Len(X) : X[k].name = feature].vals[i]) > Unit(feature)
             THEN <<[factor |-> feature,
                     value |-> X[CHOOSE k \in 1..Len(X) : X[k].name = feature].vals[i]]>> \o rest
             ELSE rest

\* assess_claims mutated: the claim ids are taken from the end of the list
assess_claims_reversed(self, X, claim_ids) ==
    LET predictions == predict(self, X).out
        probabilities == predict_proba(self, X).out
        feature_importance == get_feature_importance(self)
    IN  IF predictions.raised # "" THEN predictions
        ELSE IF probabilities.raised # "" THEN probabilities
        ELSE IF feature_importance.raised # "" THEN feature_importance
        ELSE LET top_features ==
                     [k \in 1..Min(TopFeatureCount, Len(feature_importance.value)) |->
                         feature_importance.value[k].feature]
                 n == Min(Len(claim_ids), Len(predictions.value))
             IN  Returned([i \in 1..n |->
                     [claim_id |-> claim_ids[n + 1 - i],
                      is_fraud_predicted |-> predictions.value[i] # 0,
                      fraud_probability |-> probabilities.value[i],
                      risk_level |-> risk_level(probabilities.value[i]),
                      risk_factors |->
                          Prefix(RiskFactors(X, i, Prefix(top_features, ScannedFeatures)),
                                 MaxRiskFactors),
                      confidence |-> Max(probabilities.value[i],
                                         MaxProb - probabilities.value[i])]])

\* FraudRiskAssessor.assess_claims(X, claim_ids)
assess_claims(self, X, claim_ids) ==
    LET predictions == predict(self, X).out
        probabilities == predict_proba(self, X).out
        feature_importance == get_feature_importance(self)
    IN  IF predictions.raised # "" THEN predictions
        ELSE IF probabilities.raised # "" THEN probabilities
        ELSE IF feature_importance.raised # "" THEN feature_importance
        ELSE LET top_features ==
                     [k \in 1..Min(TopFeatureCount, Len(feature_importance.value)) |->
                         feature_importance.value[k].feature]
                 n == Min(Len(claim_ids), Len(predictions.value))
             IN  Returned([i \in 1..n |->
                     [claim_id |-> claim_ids[i],
                      is_fraud_predicted |-> predictions.value[i] # 0,
                      fraud_probability |-> probabilities.value[i],
                      risk_level |-> risk_level(probabilities.value[i]),
                      risk_factors |->
                          Prefix(RiskFactors(X, i, Prefix(top_features, ScannedFeatures)),
                                 MaxRiskFactors),
                      confidence |-> Max(probabilities.value[i],
                                         MaxProb - probabilities.value[i])]])

----------------------------------------------------------------------------
(* The calls of the inference API, one action per call *)

\* a direct call of _align_features(X) on an object holding a schema
AlignFeaturesCall(X) ==
    /\ train.pc = "idle"
    /\ ~IsNone(feature_names)
    /\ call' = [op |-> "_align_features", arg |-> X,
                res |-> align_features(feature_names.v, X)]
    /\ UNCHANGED <<modelVars, restVars>>

PredictCall(X) ==
    /\ train.pc = "idle"
    /\ call' = [op |-> "predict", arg |-> X, res |-> predict(Self, X)]
    /\ UNCHANGED <<modelVars, restVars>>

PredictProbaCall(X) ==
    /\ train.pc = "idle"
    /\ call' = [op |-> "predict_proba", arg |-> X, res |-> predict_proba(Self, X)]
    /\ UNCHANGED <<modelVars, restVars>>

AssessClaimsCall(X, claim_ids) ==
    /\ train.pc = "idle"
    /\ call' = [op |-> "assess_claims", arg |-> X, res |-> assess_claims(Self, X, claim_ids)]
    /\ UNCHANGED <<modelVars, restVars>>

----------------------------------------------------------------------------
(* FraudDetectionModel: construction, persistence *)

ModelPaths == {"models_storage", "models_tmp"}
ModelNames == {"fraud_model"}

\* os.path.join(self.model_path, f"{model_name}.pkl")
ModelFile(path, model_name) == <<path, model_name, "pkl">>

\* a dict as the sequence of its (key, value) items
DictHas(d, key) == \E i \in 1..Len(d) : d[i][1] = key
DictGet(d, key) == d[CHOOSE i \in 1..Len(d) : d[i][1] = key][2]

WriteFile(fs, file, data) ==
    [f \in DOMAIN fs \cup {file} |-> IF f = file THEN data ELSE fs[f]]

\* FraudDetectionModel.__init__(model_path)
NewModel(path) ==
    /\ train.pc = "idle"
    /\ model' = None
    /\ scaler' = None
    /\ feature_names' = None
    /\ training_metadata' = EmptyMetadata
    /\ model_path' = path
    /\ call' = [op |-> "__init__", arg |-> path, res |-> Returned(path)]
    /\ UNCHANGED restVars

\* the dict save() pickles, mutated: the scaler is left out
model_data_no_scaler(self) ==
    << <<"model", self.model>>,
       <<"feature_names", self.feature_names>>,
       <<"metadata", self.training_metadata>> >>

\* the dict save() pickles
model_data(self) ==
    << <<"model", self.model>>,
       <<"scaler", self.scaler>>,
       <<"feature_names", self.feature_names>>,
       <<"metadata", self.training_metadata>> >>

\* FraudDetectionModel.save(model_name)
SaveCall(model_name) ==
    LET model_file == ModelFile(model_path, model_name)
    IN  /\ train.pc = "idle"
        /\ IF IsNone(model)
           THEN /\ call' = [op |-> "save", arg |-> model_name,
                            res |-> Raised("ValueError: No model to save")]
                /\ UNCHANGED <<modelVars, restVars>>
           ELSE /\ files' = WriteFile(files, model_file, model_data(Self))
                /\ saved_objects' = WriteFile(saved_objects, model_file, Self)
                /\ call' = [op |-> "save", arg |-> model_name,
                            res |-> Returned(model_file)]
                /\ UNCHANGED <<storeVars, modelVars, trainVars, pred, authVars>>

\* the object after load() read the pickled dict d: the assignments run in
\* order and stop at the first missing key (the except branch returns False)
loaded_object(self, d) ==
    IF ~DictHas(d, "model") THEN [ok |-> FALSE, self |-> self]
    ELSE LET s1 == [self EXCEPT !.model = DictGet(d, "model")]
         IN  IF ~DictHas(d, "scaler") THEN [ok |-> FALSE, self |-> s1]
             ELSE LET s2 == [s1 EXCEPT !.scaler = DictGet(d, "scaler")]
                  IN  IF ~DictHas(d, "feature_names") THEN [ok |-> FALSE, self |-> s2]
                      ELSE [ok |-> TRUE,
                            self |-> [s2 EXCEPT
                                !.feature_names = DictGet(d, "feature_names"),
                                !.training_metadata =
                                    IF DictHas(d, "metadata") THEN DictGet(d, "metadata")
                                    ELSE EmptyMetadata]]

\* FraudDetectionModel.load(model_name)
LoadCall(model_name) ==
    LET model_file == ModelFile(model_path, model_name)
    IN  /\ train.pc = "idle"
        /\ IF model_file \notin DOMAIN files
           THEN /\ call' = [op |-> "load", arg |-> model_name,
                            res |-> Returned(FALSE), before |-> Self]
                /\ UNCHANGED <<modelVars, restVars>>
           ELSE LET l == loaded_object(Self, files[model_file])
                IN  /\ model' = l.self.model
                    /\ scaler' = l.self.scaler
                    /\ feature_names' = l.self.feature_names
                    /\ training_metadata' = l.self.training_metadata
                    /\ completed' = IF l.ok THEN completed \cup {Artifact(l.self)}
                                    ELSE completed
                    /\ call' = [op |-> "load", arg |-> model_name,
                                res |-> Returned(l.ok), before |-> Self]
                    /\ UNCHANGED <<storeVars, model_path, diskVars, authVars, clock, train, pred>>

----------------------------------------------------------------------------
(* FraudDetectionModel.train, statement by statement *)

\* the matrices train() is given and the ones scored in these runs
TrainSchemas == {<<"claim_amount">>, <<"patient_age", "claim_amount">>}
TrainMatrices ==
    {X \in Matrices : Columns(X) \in TrainSchemas
                         /\ \A i \in 1..Len(X), r \in 1..NRows(X) : X[i].vals[r] # 0}
ScoreMatrices == {X \in Matrices : Len(X) = 1 /\ X[1].name = "claim_amount"}

\* the labels y as the number of claims of each class
Labels ==
    {[normal |-> 40, fraud |-> 10], [normal |-> 40, fraud |-> 1],
     [normal |-> 40, fraud |-> 4]}

\* the share of a class that train_test_split(test_size=0.2) puts in the test set
TestCount(n) == n \div 5
TrainCount(n) == n - TestCount(n)

\* train_test_split(..., stratify=y) refuses a class with a single member
SplitFails(y) == y.normal < 2 \/ y.fraud < 2
\* SMOTE(k_neighbors=5) needs six samples of the minority class
SmoteFails(y) == Min(TrainCount(y.normal), TrainCount(y.fraud)) < 6
\* roc_auc_score needs both classes in the test split
EvaluateFails(y) == TestCount(y.normal) = 0 \/ TestCount(y.fraud) = 0

TrainBias(run, y) == (run * 1357 + y.fraud * 211) % (MaxProb + 1)

TrainRaise(e) ==
    /\ call' = [op |-> "train", arg |-> train.X, res |-> Raised(e),
                before |-> train.before]
    /\ train' = Idle

\* train(X, y, use_smote) is called; line 71: self.feature_names = list(X.columns)
TrainStart(X, y, use_smote) ==
    /\ train.pc = "idle"
    /\ clock <= MaxTrains
    /\ train' = [pc |-> "split", X |-> X, y |-> y, use_smote |-> use_smote,
                 run |-> clock, before |-> Self]
    /\ clock' = clock + 1
    /\ feature_names' = Some(Columns(X))
    /\ call' = [op |-> "train", arg |-> X, res |-> Raised("in flight"), before |-> Self]
    /\ UNCHANGED <<storeVars, model, scaler, training_metadata, model_path, diskVars, authVars,
                   completed, pred>>

\* lines 74-76: train_test_split
TrainSplit ==
    /\ train.pc = "split"
    /\ IF SplitFails(train.y)
       THEN TrainRaise("ValueError: least populated class")
       ELSE train' = [train EXCEPT !.pc = "new_scaler"] /\ UNCHANGED call
    /\ UNCHANGED <<storeVars, modelVars, diskVars, authVars, clock, completed, pred>>

\* line 83: self.scaler = StandardScaler()
TrainNewScaler ==
    /\ train.pc = "new_scaler"
    /\ scaler' = Some(NewScaler(train.run))
    /\ train' = [train EXCEPT !.pc = "fit_scaler"]
    /\ UNCHANGED <<storeVars, model, feature_names, training_metadata, model_path, diskVars, authVars,
                   clock, completed, pred, call>>

\* lines 84-85: self.scaler.fit_transform(X_train) fits the object in place
TrainFitScaler ==
    /\ train.pc = "fit_scaler"
    /\ scaler' = Some(FittedScaler(train.run, Columns(train.X)))
    /\ train' = [train EXCEPT !.pc = "smote"]
    /\ UNCHANGED <<storeVars, model, feature_names, training_metadata, model_path, diskVars, authVars,
                   clock, completed, pred, call>>

\* lines 88-103: SMOTE(...).fit_resample when use_smote
TrainSmote ==
    /\ train.pc = "smote"
    /\ IF train.use_smote /\ SmoteFails(train.y)
       THEN TrainRaise("ValueError: n_neighbors")
       ELSE train' = [train EXCEPT !.pc = "new_classifier"] /\ UNCHANGED call
    /\ UNCHANGED <<storeVars, modelVars, diskVars, authVars, clock, completed, pred>>

\* lines 107-116: self.model = GradientBoostingClassifier(...)
TrainNewClassifier ==
    /\ train.pc = "new_classifier"
    /\ model' = Some(NewClassifier(train.run))
    /\ train' = [train EXCEPT !.pc = "fit"]
    /\ UNCHANGED <<storeVars, scaler, feature_names, training_metadata, model_path, diskVars, authVars,
                   clock, completed, pred, call>>

\* line 118: self.model.fit(...) fits the object in place
TrainFit ==
    /\ train.pc = "fit"
    /\ model' = Some(FittedClassifier(train.run, Columns(train.X),
                                      TrainBias(train.run, train.y)))
    /\ train' = [train EXCEPT !.pc = "evaluate"]
    /\ UNCHANGED <<storeVars, scaler, feature_names, training_metadata, model_path, diskVars, authVars,
                   clock, completed, pred, call>>

\* lines 124-138: _evaluate_model, self.training_metadata = {...}, return metrics
TrainEvaluate ==
    /\ train.pc = "evaluate"
    /\ IF EvaluateFails(train.y)
       THEN /\ TrainRaise("ValueError: only one class present in y_true")
            /\ UNCHANGED <<training_metadata, completed>>
       ELSE /\ training_metadata' = Metadata(train.run, Columns(train.X))
            /\ completed' = completed \cup {Artifact(Self)}
            /\ call' = [op |-> "train", arg |-> train.X,
                        res |-> Returned(train.run), before |-> train.before]
            /\ train' = Idle
    /\ UNCHANGED <<storeVars, model, scaler, feature_names, model_path, diskVars, authVars, clock, pred>>

TrainStep ==
    \/ TrainSplit
    \/ TrainNewScaler
    \/ TrainFitScaler
    \/ TrainSmote
    \/ TrainNewClassifier
    \/ TrainFit
    \/ TrainEvaluate

----------------------------------------------------------------------------
(* FraudDetectionModel.predict_proba, statement by statement, as a thread
   running beside train() sees the object *)

PredDone(out) ==
    pred' = [pred EXCEPT !.pc = "done", !.out = out]

\* predict_proba(X) is called
PredStart(X) ==
    /\ pred.pc \in {"idle", "done"}
    /\ pred' = [pc |-> "check_model", X |-> X, X_aligned |-> <<>>, X_scaled |-> <<>>,
                names_loop |-> None, names_select |-> None, scaler |-> None,
                model |-> None, out |-> Raised("in flight"),
                during_train |-> train.pc # "idle"]
    /\ UNCHANGED <<storeVars, modelVars, diskVars, authVars, trainVars, call>>

\* line 231: if self.model is None
PredCheckModel ==
    /\ pred.pc = "check_model"
    /\ IF IsNone(model) THEN PredDone(Raised("ValueError: Model not trained or loaded"))
       ELSE pred' = [pred EXCEPT !.pc = "check_scaler"]
    /\ UNCHANGED <<storeVars, modelVars, diskVars, authVars, trainVars, call>>

\* line 234: if self.scaler is None
PredCheckScaler ==
    /\ pred.pc = "check_scaler"
    /\ IF IsNone(scaler) THEN PredDone(Raised("ValueError: Scaler not available"))
       ELSE pred' = [pred EXCEPT !.pc = "align_loop"]
    /\ UNCHANGED <<storeVars, modelVars, diskVars, authVars, trainVars, call>>

\* lines 260-265: the copy and the loop over self.feature_names
PredAlignLoop ==
    /\ pred.pc = "align_loop"
    /\ IF IsNone(feature_names) THEN PredDone(Raised("TypeError"))
       ELSE pred' = [pred EXCEPT !.pc = "align_select",
                                 !.names_loop = feature_names,
                                 !.X_aligned = AddMissingColumns(pred.X, feature_names.v)]
    /\ UNCHANGED <<storeVars, modelVars, diskVars, authVars, trainVars, call>>

\* line 268: X_aligned[self.feature_names]
PredAlignSelect ==
    /\ pred.pc = "align_select"
    /\ IF IsNone(feature_names) THEN PredDone(Raised("TypeError"))
       ELSE IF \E col \in Range(feature_names.v) : ~HasColumn(pred.X_aligned, col)
       THEN pred' = [pred EXCEPT !.pc = "done", !.names_select = feature_names,
                                 !.out = Raised("KeyError")]
       ELSE pred' = [pred EXCEPT !.pc = "transform",
                                 !.names_select = feature_names,
                                 !.X_aligned = SelectColumns(pred.X_aligned, feature_names.v)]
    /\ UNCHANGED <<storeVars, modelVars, diskVars, authVars, trainVars, call>>

\* line 241: self.scaler.transform(X_aligned)
PredTransform ==
    /\ pred.pc = "transform"
    /\ LET t == ScalerTransform(scaler.v, pred.X_aligned)
       IN  IF t.raised # ""
           THEN pred' = [pred EXCEPT !.pc = "done", !.scaler = scaler, !.out = t]
           ELSE pred' = [pred EXCEPT !.pc = "classify", !.scaler = scaler,
                                     !.X_scaled = t.value]
    /\ UNCHANGED <<storeVars, modelVars, diskVars, authVars, trainVars, call>>

\* lines 244-246: self.model.predict_proba(X_scaled)[:, 1], return
PredClassify ==
    /\ pred.pc = "classify"
    /\ pred' = [pred EXCEPT !.pc = "done", !.model = model,
                            !.out = ClassifierProba(model.v, pred.X_scaled)]
    /\ UNCHANGED <<storeVars, modelVars, diskVars, authVars, trainVars, call>>

PredStep ==
    \/ PredCheckModel
    \/ PredCheckScaler
    \/ PredAlignLoop
    \/ PredAlignSelect
    \/ PredTransform
    \/ PredClassify

----------------------------------------------------------------------------
(* The entity store: the CSV files under data/ and the CSVDataLoader that
   reads them into tables and builds the relationship graph.  A table is the
   sequence of its rows; a graph is the set of its nodes, each with its
   node_type, and the set of its edges. *)

\* the attributes load_data assigns, in its order, and the file each is read from
TableOrder ==
    <<"patients_df", "providers_df", "pharmacies_df", "policies_df",
      "claims_df", "diagnoses_df", "procedures_df", "medications_df">>
CsvFile ==
    [patients_df |-> "patients.csv", providers_df |-> "providers.csv",
     pharmacies_df |-> "pharmacies.csv", policies_df |-> "policies.csv",
     claims_df |-> "claims.csv", diagnoses_df |-> "diagnoses.csv",
     procedures_df |-> "procedures.csv", medications_df |-> "medications.csv"]
CsvFiles == {CsvFile[t] : t \in Range(TableOrder)}

\* the rows of the three tables the extractor reads; a patient's age stands
\* for (datetime.now() - date_of_birth).days / 365.25
Patient(id, age, gender) == [patient_id |-> id, age |-> age, gender |-> gender]
Provider(id, specialty) == [provider_id |-> id, specialty |-> specialty]
\* a service_date column value: the day, hour and minute its ISO 8601 text
\* names, the days counted from a Monday
ServiceDate(day, hour, minute) == [day |-> day, hour |-> hour, minute |-> minute]
Claim(id, patient, provider, amount, fraud, claim_type, claim_status) ==
    [claim_id |-> id, patient_id |-> patient, provider_id |-> provider,
     claim_amount |-> amount, is_fraudulent |-> fraud,
     claim_type |-> claim_type, claim_status |-> claim_status,
     service_date |-> ServiceDate(1, 12, 0)]
\* the claim with another service date
At(claim, service_date) == [claim EXCEPT !.service_date = service_date]

\* the values of the encoded columns, each list in sorted order
ClaimTypes == <<"Inpatient", "Outpatient">>
ClaimStatuses == <<"Approved", "Denied">>
Specialties == <<"Cardiology", "Oncology">>

\* a claims table without the is_fraudulent column
WithoutLabel(claims) ==
    [i \in 1..Len(claims) |->
        [f \in DOMAIN claims[i] \ {"is_fraudulent"} |-> claims[i][f]]]

\* a file under data/: absent, not parseable as CSV, or the rows it holds
Missing == [kind |-> "missing", rows |-> <<>>]
Corrupt == [kind |-> "corrupt", rows |-> <<>>]
Csv(rows) == [kind |-> "csv", rows |-> rows]

\* a data directory holding the eight files of one dataset
Dataset(patients, providers, claims) ==
    [f \in CsvFiles |->
        IF f = "patients.csv" THEN Csv(patients)
        ELSE IF f = "providers.csv" THEN Csv(providers)
        ELSE IF f = "claims.csv" THEN Csv(claims)
        ELSE Csv(<<>>)]

SampleClaims ==
    <<Claim("CLM1", "PAT1", "PRV1", 7, FALSE, "Inpatient", "Approved"),
      Claim("CLM2", "PAT2", "PRV1", 0, TRUE, "Outpatient", "Approved")>>
SampleDataset ==
    Dataset(<<Patient("PAT1", 30, "M"), Patient("PAT2", 61, "F")>>,
            <<Provider("PRV1", "Cardiology")>>,
            SampleClaims)
UploadedDataset ==
    Dataset(<<Patient("PAT1", 30, "M"), Patient("PAT3", 45, "F")>>,
            <<Provider("PRV1", "Cardiology"), Provider("PRV2", "Oncology")>>,
            <<Claim("CLM1", "PAT1", "PRV2", 7, TRUE, "Inpatient", "Denied"),
              Claim("CLM3", "PAT3", "PRV1", 7, FALSE, "Inpatient", "Approved")>>)
\* claims.csv holding the header line only
NoClaimsDataset ==
    Dataset(<<Patient("PAT1", 30, "M")>>, <<Provider("PRV1", "Cardiology")>>, <<>>)
\* an upload whose second claim names a patient patients.csv does not hold
OrphanDataset ==
    Dataset(<<Patient("PAT1", 30, "M")>>,
            <<Provider("PRV1", "Cardiology")>>,
            <<Claim("CLM1", "PAT1", "PRV1", 7, FALSE, "Inpatient", "Approved"),
              Claim("CLM2", "PAT9", "PRV1", 7, TRUE, "Inpatient", "Approved")>>)
\* an upload whose claims.csv has no is_fraudulent column
UnlabeledDataset ==
    Dataset(<<Patient("PAT1", 30, "M"), Patient("PAT2", 61, "F")>>,
            <<Provider("PRV1", "Cardiology")>>,
            WithoutLabel(SampleClaims))
Datasets ==
    {SampleDataset, UploadedDataset, NoClaimsDataset, OrphanDataset, UnlabeledDataset}

\* an upload whose providers.csv parses but has no provider_id column
NoKeyDataset ==
    Dataset(<<Patient("PAT3", 30, "M")>>, <<[specialty |-> "Cardiology"]>>,
            <<Claim("CLM3", "PAT3", "PRV1", 7, FALSE, "Inpatient", "Approved")>>)

\* the directory before the generator ran, and one with an unreadable claims.csv
EmptyDir == [f \in CsvFiles |-> Missing]
CorruptDir == [SampleDataset EXCEPT !["claims.csv"] = Corrupt]
DataDirs == Datasets \cup {EmptyDir, CorruptDir}

\* pd.read_csv(f"{self.data_dir}/{file}")
read_csv(dir, file) ==
    IF dir[file].kind = "missing" THEN Raised("FileNotFoundError")
    ELSE IF dir[file].kind = "corrupt" THEN Raised("ParserError")
    ELSE Returned(dir[file].rows)

\* nx.Graph(), add_node (a node added again gets the new attributes),
\* add_edge (an end that is no node yet becomes one, without node_type)
EmptyGraph == [nodes |-> {}, edges |-> {}]
NodeIds(G) == {n.id : n \in G.nodes}
add_node(G, id, node_type) ==
    [G EXCEPT !.nodes = {n \in @ : n.id # id} \cup {[id |-> id, node_type |-> node_type]}]
add_edge(G, u, v) ==
    [nodes |-> G.nodes \cup {[id |-> x, node_type |-> "unknown"] : x \in {u, v} \ NodeIds(G)},
     edges |-> G.edges \cup {{u, v}}]

RECURSIVE AddNodes(_, _, _, _)
AddNodes(G, rows, key, node_type) ==
    IF rows = <<>> THEN G
    ELSE AddNodes(add_node(G, Head(rows)[key], node_type), Tail(rows), key, node_type)

RECURSIVE AddEdges(_, _)
AddEdges(G, claims) ==
    IF claims = <<>> THEN G
    ELSE AddEdges(add_edge(G, Head(claims).patient_id, Head(claims).provider_id),
                  Tail(claims))

\* CSVDataLoader._build_graph, run to its end: the graph it leaves
build_graph(patients_df, providers_df, claims_df) ==
    AddEdges(AddNodes(AddNodes(EmptyGraph, patients_df, "patient_id", "patient"),
                      providers_df, "provider_id", "provider"),
             claims_df)

\* CSVDataLoader.__init__ before its load_data()
NewLoader ==
    [patients_df |-> None, providers_df |-> None, pharmacies_df |-> None,
     policies_df |-> None, claims_df |-> None, diagnoses_df |-> None,
     procedures_df |-> None, medications_df |-> None, graph |-> None]

\* load_data lines 37-44 from the i-th assignment on: each table is assigned
\* as it is read, and the first read that raises ends the block
RECURSIVE ReadTables(_, _, _)
ReadTables(self, dir, i) ==
    IF i > Len(TableOrder) THEN [self |-> self, raised |-> ""]
    ELSE LET df == read_csv(dir, CsvFile[TableOrder[i]])
         IN  IF df.raised # "" THEN [self |-> self, raised |-> df.raised]
             ELSE ReadTables([self EXCEPT ![TableOrder[i]] = Some(df.value)], dir, i + 1)

\* CSVDataLoader.load_data, run to its end by one thread: the loader and the
\* graph objects after it; FileNotFoundError is caught, anything else leaves
LoadData(self, dir, heap) ==
    LET r == ReadTables(self, dir, 1)
    IN  IF r.raised = "FileNotFoundError"
        THEN [self |-> r.self, graphs |-> heap, raised |-> ""]
        ELSE IF r.raised # ""
        THEN [self |-> r.self, graphs |-> heap, raised |-> r.raised]
        ELSE [self |-> [r.self EXCEPT !.graph = Some(Len(heap) + 1)],
              graphs |-> Append(heap, build_graph(r.self.patients_df.v,
                                                  r.self.providers_df.v,
                                                  r.self.claims_df.v)),
              raised |-> ""]

\* get_data_loader(): the singleton is constructed on first use and kept only
\* when its constructor returned
get_data_loader(loader, dir, heap) ==
    IF ~IsNone(loader) THEN [data_loader |-> loader, graphs |-> heap, raised |-> ""]
    ELSE LET l == LoadData(NewLoader, dir, heap)
         IN  IF l.raised # "" THEN [data_loader |-> None, graphs |-> heap, raised |-> l.raised]
             ELSE [data_loader |-> Some(l.self), graphs |-> l.graphs, raised |-> ""]

----------------------------------------------------------------------------
(* FraudFeatureExtractor: one feature row per claim of the subset.  The
   feature frame is built from the extractor's own references to the tables
   and the graph, taken when it was constructed. *)

\* FraudFeatureExtractor.__init__(data_loader), run by one thread
FraudFeatureExtractor(loader) ==
    [patients_df |-> loader.patients_df, providers_df |-> loader.providers_df,
     claims_df |-> loader.claims_df, graph |-> loader.graph]

Col(name, vals) == [name |-> name, vals |-> vals]
Count(rows, key, v) == Cardinality({k \in 1..Len(rows) : rows[k][key] = v})

\* df[df['claim_id'].isin(claim_ids)]
IsIn(df, claim_ids) == SelectSeq(df, LAMBDA row : row.claim_id \in Range(claim_ids))

\* pd.get_dummies(claims_df[key], prefix=prefix): one indicator column for
\* each value that occurs in claims_df, in sorted order
get_dummies(claims_df, key, prefix, values) ==
    LET present == SelectSeq(values, LAMBDA v : \E i \in 1..Len(claims_df) :
                                                    claims_df[i][key] = v)
    IN  [k \in 1..Len(present) |->
            Col(prefix \o "_" \o present[k],
                [i \in 1..Len(claims_df) |->
                    IF claims_df[i][key] = present[k] THEN 1 ELSE 0])]

\* _extract_claim_features
extract_claim_features(claims_df) ==
    <<Col("claim_amount", [i \in 1..Len(claims_df) |-> claims_df[i].claim_amount])>>
    \o get_dummies(claims_df, "claim_type", "claim_type", ClaimTypes)
    \o get_dummies(claims_df, "claim_status", "status", ClaimStatuses)

\* dict.get / Series.map on a dict built from a table: the last row with the key
HasRow(df, key, v) == \E k \in 1..Len(df) : df[k][key] = v
RowOf(df, key, v) ==
    df[CHOOSE k \in 1..Len(df) :
          df[k][key] = v /\ \A j \in (k + 1)..Len(df) : df[j][key] # v]

\* claims_df['patient_id'].map(patient_ages): NaN for an id without a patient
patient_age(patients_df, patient_id) ==
    IF HasRow(patients_df, "patient_id", patient_id)
    THEN RowOf(patients_df, "patient_id", patient_id).age
    ELSE NaN

\* 1 if patient_gender.get(x, 'M') == 'M' else 0
patient_is_male(patients_df, patient_id) ==
    IF HasRow(patients_df, "patient_id", patient_id)
    THEN IF RowOf(patients_df, "patient_id", patient_id).gender = "M" THEN 1 ELSE 0
    ELSE 1

\* _extract_patient_features: patient_stats[patient_ids[0]] needs a first patient
extract_patient_features(self, claims_df) ==
    IF claims_df = <<>> THEN Raised("IndexError")
    ELSE IF IsNone(self.patients_df) THEN Raised("AttributeError")
    ELSE Returned(<<Col("patient_num_claims",
                        [i \in 1..Len(claims_df) |->
                            Count(self.claims_df.v, "patient_id", claims_df[i].patient_id)]),
                    Col("patient_age",
                        [i \in 1..Len(claims_df) |->
                            patient_age(self.patients_df.v, claims_df[i].patient_id)]),
                    Col("patient_is_male",
                        [i \in 1..Len(claims_df) |->
                            patient_is_male(self.patients_df.v, claims_df[i].patient_id)])>>)

\* the rate mutated: the provider's fraudulent claims over all claims of the table
fraud_rate_of_table(claims, provider_id) ==
    IF \E k \in 1..Len(claims) : "is_fraudulent" \notin DOMAIN claims[k] THEN 0
    ELSE (Cardinality({k \in 1..Len(claims) :
                          claims[k].provider_id = provider_id /\ claims[k].is_fraudulent})
          * MaxProb) \div Len(claims)

\* provider_claims['is_fraudulent'].mean() if 'is_fraudulent' in provider_claims
\* else 0, for the provider's claims in the table
provider_fraud_rate(claims, provider_id) ==
    LET provider_claims == SelectSeq(claims, LAMBDA c : c.provider_id = provider_id)
    IN  IF \E k \in 1..Len(provider_claims) : "is_fraudulent" \notin DOMAIN provider_claims[k]
        THEN 0
        ELSE (Cardinality({k \in 1..Len(provider_claims) : provider_claims[k].is_fraudulent})
              * MaxProb) \div Len(provider_claims)

\* the specialty columns: one for each specialty of the providers table
specialty_columns(providers_df, claims_df) ==
    LET all_specialties == SelectSeq(Specialties, LAMBDA v : HasRow(providers_df, "specialty", v))
    IN  [k \in 1..Len(all_specialties) |->
            Col("specialty_" \o all_specialties[k],
                [i \in 1..Len(claims_df) |->
                    IF HasRow(providers_df, "provider_id", claims_df[i].provider_id)
                       /\ RowOf(providers_df, "provider_id", claims_df[i].provider_id).specialty
                            = all_specialties[k]
                    THEN 1 ELSE 0])]

\* _extract_provider_features: provider_stats[provider_ids[0]] likewise
extract_provider_features(self, claims_df) ==
    IF claims_df = <<>> THEN Raised("IndexError")
    ELSE IF IsNone(self.providers_df) THEN Raised("AttributeError")
    ELSE IF \E k \in 1..Len(self.providers_df.v) :
                "provider_id" \notin DOMAIN self.providers_df.v[k]
    THEN Raised("KeyError")
    ELSE Returned(<<Col("provider_num_claims",
                        [i \in 1..Len(claims_df) |->
                            Count(self.claims_df.v, "provider_id", claims_df[i].provider_id)]),
                    Col("provider_fraud_rate",
                        [i \in 1..Len(claims_df) |->
                            provider_fraud_rate(self.claims_df.v, claims_df[i].provider_id)])>>
                  \o specialty_columns(self.providers_df.v, claims_df))

\* pd.to_datetime(service_date): a timestamp, in minutes
MinutesPerDay == 1440
to_datetime(service_date) ==
    (service_date.day * 24 + service_date.hour) * 60 + service_date.minute
\* Timedelta.days of a difference of timestamps that is not negative
Days(minutes) == minutes \div MinutesPerDay

\* the timestamps of a patient's claims in the table
PatientDates(claims, patient_id) ==
    {to_datetime(claims[k].service_date) :
        k \in {j \in 1..Len(claims) : claims[j].patient_id = patient_id}}
MinOf(S) == CHOOSE a \in S : \A b \in S : a <= b
MaxOf(S) == CHOOSE a \in S : \A b \in S : a >= b

\* (service_dates.dt.hour < 6) | (service_dates.dt.hour > 20)
is_night(service_date) == IF service_date.hour < 6 \/ service_date.hour > 20 THEN 1 ELSE 0

\* claim_frequency[patient_id]: claims per day over the patient's claims in
\* the table, 0 for a patient with one claim
patient_claim_frequency(claims, patient_id) ==
    LET dates == PatientDates(claims, patient_id)
        n == Count(claims, "patient_id", patient_id)
    IN  IF n > 1
        THEN (n * MaxProb) \div Max(Days(MaxOf(dates) - MinOf(dates)) + 1, 1)
        ELSE 0

\* _extract_temporal_features; service_month is left out, no calendar is modelled
extract_temporal_features(self, claims_df) ==
    Returned(<<Col("service_day_of_week",
                   [i \in 1..Len(claims_df) |-> claims_df[i].service_date.day % 7]),
               Col("is_weekend",
                   [i \in 1..Len(claims_df) |->
                       IF claims_df[i].service_date.day % 7 >= 5 THEN 1 ELSE 0]),
               Col("service_hour",
                   [i \in 1..Len(claims_df) |-> claims_df[i].service_date.hour]),
               Col("is_night",
                   [i \in 1..Len(claims_df) |-> is_night(claims_df[i].service_date)]),
               Col("days_since_first_claim",
                   [i \in 1..Len(claims_df) |->
                       Days(to_datetime(claims_df[i].service_date)
                            - MinOf(PatientDates(self.claims_df.v,
                                                 claims_df[i].patient_id)))]),
               Col("patient_claim_frequency",
                   [i \in 1..Len(claims_df) |->
                       patient_claim_frequency(self.claims_df.v,
                                               claims_df[i].patient_id)])>>)

\* graph.degree(node) for the nodes of one node_type, 0 for any other id
Degree(G, id, node_type) ==
    IF [id |-> id, node_type |-> node_type] \in G.nodes
    THEN Cardinality({e \in G.edges : id \in e})
    ELSE 0

\* nx.shortest_path_length: breadth first from the source
RECURSIVE PathLength(_, _, _, _, _)
PathLength(G, frontier, seen, target, d) ==
    IF target \in frontier THEN Returned(d)
    ELSE LET next == {m \in NodeIds(G) \ seen : \E n \in frontier : {n, m} \in G.edges}
         IN  IF next = {} THEN Raised("NetworkXNoPath")
             ELSE PathLength(G, next, seen \cup next, target, d + 1)
shortest_path_length(G, source, target) == PathLength(G, {source}, {source}, target, 0)

NoPathDistance == 999   \* distances.append(999)

\* the distance mutated: indirect connections are not followed
graph_distance_direct_only(G, patient_id, provider_id) ==
    IF {patient_id, provider_id} \in G.edges THEN 1 ELSE NoPathDistance

\* the distance loop of _extract_graph_features, one claim
graph_distance(G, patient_id, provider_id) ==
    IF patient_id \in NodeIds(G) /\ provider_id \in NodeIds(G)
    THEN IF {patient_id, provider_id} \in G.edges THEN 1
         ELSE LET distance == shortest_path_length(G, patient_id, provider_id)
              IN  IF distance.raised # "" THEN NoPathDistance ELSE distance.value
    ELSE NoPathDistance

\* _extract_graph_features on the graph object the extractor refers to
extract_graph_features(self, heap, claims_df) ==
    IF IsNone(self.graph) THEN Raised("AttributeError")
    ELSE LET G == heap[self.graph.v]
         IN  Returned(<<Col("patient_degree",
                            [i \in 1..Len(claims_df) |->
                                Degree(G, claims_df[i].patient_id, "patient")]),
                        Col("provider_degree",
                            [i \in 1..Len(claims_df) |->
                                Degree(G, claims_df[i].provider_id, "provider")]),
                        Col("graph_distance",
                            [i \in 1..Len(claims_df) |->
                                graph_distance(G, claims_df[i].patient_id,
                                               claims_df[i].provider_id)])>>)

\* FraudFeatureExtractor.extract_all_features(claim_ids); claim_ids is None
\* or Some list of ids
extract_all_features(self, heap, claim_ids) ==
    IF IsNone(self.claims_df)
    THEN Raised(IF IsNone(claim_ids) THEN "AttributeError" ELSE "TypeError")
    ELSE LET claims_subset == IF IsNone(claim_ids) THEN self.claims_df.v
                              ELSE IsIn(self.claims_df.v, claim_ids.v)
             claim_features == extract_claim_features(claims_subset)
             patient_features == extract_patient_features(self, claims_subset)
             provider_features == extract_provider_features(self, claims_subset)
             temporal_features == extract_temporal_features(self, claims_subset)
             graph_features == extract_graph_features(self, heap, claims_subset)
         IN  IF patient_features.raised # "" THEN patient_features
             ELSE IF provider_features.raised # "" THEN provider_features
             ELSE IF graph_features.raised # "" THEN graph_features
             ELSE Returned(<<Col("claim_id", [i \in 1..Len(claims_subset) |->
                                                 claims_subset[i].claim_id])>>
                           \o claim_features \o patient_features.value
                           \o provider_features.value \o temporal_features.value
                           \o graph_features.value)

\* the graph-wide metrics one extract_all_features call computes: none when
\* the call raises before _extract_graph_features; there nx.clustering runs
\* on every call, nx.betweenness_centrality on a graph below the size limit
BetweennessLimit == 5000
NoMetrics == [graph |-> 0, betweenness |-> FALSE, clustering |-> FALSE]
graph_metrics(self, heap, claim_ids) ==
    IF extract_all_features(self, heap, claim_ids).raised # "" THEN NoMetrics
    ELSE [graph |-> self.graph.v,
          betweenness |-> Cardinality(heap[self.graph.v].nodes) < BetweennessLimit,
          clustering |-> TRUE]

----------------------------------------------------------------------------
(* FraudExplainerTemplate: the rule-based explanations.  The object has no
   fields, so the singleton get_fraud_explainer() returns carries no state.
   A threshold is written in hundredths; a value v of a feature stands for
   v / Unit(feature). *)

ThresholdScale == 100

Template(factor, threshold, severity, category) ==
    [factor |-> factor, threshold |-> threshold, severity |-> severity,
     category |-> category]

EXPLANATION_TEMPLATES ==
    <<Template("claim_to_typical_cost_ratio", 200, "high", "Amount Anomaly"),
      Template("provider_fraud_rate", 15, "critical", "Provider Pattern"),
      Template("provider_weekend_claim_percentage", 30, "medium", "Provider Pattern"),
      Template("patient_provider_shopping", 300, "high", "Patient Behavior"),
      Template("provider_claims_per_day", 2000, "medium", "Provider Pattern"),
      Template("shared_address_score", 50, "high", "Relationship Pattern"),
      Template("fraud_ring_membership", 50, "critical", "Relationship Pattern"),
      Template("provider_referral_reciprocity", 60, "high", "Relationship Pattern"),
      Template("days_since_policy_start", 0 - 3000, "medium", "Timing Issue"),
      Template("patient_claim_frequency", 1000, "medium", "Patient Behavior")>>

\* factor_name in self.EXPLANATION_TEMPLATES, self.EXPLANATION_TEMPLATES[factor_name]
HasTemplate(factor_name) ==
    \E k \in 1..Len(EXPLANATION_TEMPLATES) : EXPLANATION_TEMPLATES[k].factor = factor_name
TemplateOf(factor_name) ==
    EXPLANATION_TEMPLATES[CHOOSE k \in 1..Len(EXPLANATION_TEMPLATES) :
                             EXPLANATION_TEMPLATES[k].factor = factor_name]

\* the threshold test mutated: a value at the threshold is not flagged
should_flag_strict(threshold, factor_value, unit) ==
    \/ threshold >= 0 /\ ThresholdScale * factor_value > threshold * unit
    \/ threshold < 0 /\ ThresholdScale * factor_value < Abs(threshold) * unit

\* should_flag of _generate_red_flags
should_flag(threshold, factor_value, unit) ==
    \/ threshold >= 0 /\ ThresholdScale * factor_value >= threshold * unit
    \/ threshold < 0 /\ ThresholdScale * factor_value <= Abs(threshold) * unit

\* the red flag of the i-th risk factor, if it raises one.  The description
\* and the data points are texts made of the factor and its value.
RedFlag(i, factor) ==
    IF HasTemplate(factor.factor)
    THEN IF should_flag(TemplateOf(factor.factor).threshold, factor.value,
                        Unit(factor.factor))
         THEN <<[id |-> i, category |-> TemplateOf(factor.factor).category,
                 severity |-> TemplateOf(factor.factor).severity,
                 factor |-> factor.factor, value |-> factor.value]>>
         ELSE <<>>
    ELSE IF Abs(factor.value) > Unit(factor.factor)
         THEN <<[id |-> i, category |-> "Data Anomaly", severity |-> "low",
                 factor |-> factor.factor, value |-> factor.value]>>
         ELSE <<>>

\* FraudExplainerTemplate._generate_red_flags(risk_factors)
RECURSIVE red_flags_from(_, _)
red_flags_from(risk_factors, i) ==
    IF i > Len(risk_factors) THEN <<>>
    ELSE RedFlag(i, risk_factors[i]) \o red_flags_from(risk_factors, i + 1)
generate_red_flags(risk_factors) == red_flags_from(risk_factors, 1)

\* FraudExplainerTemplate._generate_summary: the sentence chosen and the
\* numbers it is formatted with
generate_summary(level, fraud_probability, num_red_flags) ==
    IF level \in {"CRITICAL", "HIGH"}
    THEN [text |-> "strong indicators of fraud", probability |-> fraud_probability,
          num_red_flags |-> Some(num_red_flags)]
    ELSE IF level = "MEDIUM"
    THEN [text |-> "some suspicious patterns", probability |-> fraud_probability,
          num_red_flags |-> Some(num_red_flags)]
    ELSE IF level = "LOW"
    THEN [text |-> "minor anomalies", probability |-> fraud_probability,
          num_red_flags |-> Some(num_red_flags)]
    ELSE [text |-> "appears normal", probability |-> fraud_probability,
          num_red_flags |-> None]

\* FraudExplainerTemplate._generate_recommendation
generate_recommendation(level, red_flags) ==
    IF level = "CRITICAL" THEN "IMMEDIATE ACTION REQUIRED: Escalate to fraud investigation team."
    ELSE IF level = "HIGH" THEN "Hold payment and initiate detailed review."
    ELSE IF level = "MEDIUM" THEN "Flag for manual review before processing."
    ELSE IF level = "LOW"
    THEN "Process with standard review procedures. No immediate action required."
    ELSE "Approve for standard processing. No additional review required."

\* FraudExplainerTemplate._generate_confidence_explanation
generate_confidence_explanation(fraud_probability) ==
    IF 10 * fraud_probability >= 9 * MaxProb THEN "Extremely high confidence"
    ELSE IF 4 * fraud_probability >= 3 * MaxProb THEN "High confidence"
    ELSE IF 2 * fraud_probability >= MaxProb THEN "Moderate confidence"
    ELSE IF 4 * fraud_probability >= MaxProb THEN "Low confidence"
    ELSE "Very low confidence"

\* FraudExplainerTemplate.generate_explanation
generate_explanation(claim_data, risk_factors, fraud_probability, level) ==
    LET red_flags == generate_red_flags(risk_factors)
    IN  [summary |-> generate_summary(level, fraud_probability, Len(red_flags)),
         red_flags |-> red_flags,
         recommendation |-> generate_recommendation(level, red_flags),
         confidence_explanation |-> generate_confidence_explanation(fraud_probability),
         total_red_flags |-> Len(red_flags),
         risk_score |-> fraud_probability]

\* the explanation loop of the detection methods: nothing in
\* generate_explanation raises on an assessment of assess_claims, so the
\* except branch (explanation = None) is not taken
WithExplanation(assessment) ==
    [f \in DOMAIN assessment \cup {"explanation"} |->
        IF f = "explanation"
        THEN Some(generate_explanation(assessment, assessment.risk_factors,
                                       assessment.fraud_probability,
                                       assessment.risk_level))
        ELSE assessment[f]]

----------------------------------------------------------------------------
(* FraudDetectionService: the singleton behind the detection endpoints.  Its
   model, risk assessor and data loader are references: to the model object
   (the model variables), and to the singleton loader. *)

ServicePath == "models_storage"
ServiceModelName == "fraud_model"

\* FraudDetectionModel.__init__ leaves these fields
FreshModel ==
    [model |-> None, scaler |-> None, feature_names |-> None,
     training_metadata |-> EmptyMetadata]

\* FraudDetectionService.__init__ with its _initialize(): the service, and
\* the loader, graph objects and model object it leaves.  obj is the model
\* object as it stands; it stays when no new one is constructed.
FraudDetectionService(loader, dir, heap, fs, obj) ==
    LET g == get_data_loader(loader, dir, heap)
        model_file == ModelFile(ServicePath, ServiceModelName)
        l == IF model_file \notin DOMAIN fs THEN [ok |-> FALSE, self |-> FreshModel]
             ELSE loaded_object(FreshModel, fs[model_file])
    IN  IF g.raised # ""
        THEN [service |-> [model |-> None, feature_extractor |-> None,
                           risk_assessor |-> None, data_loader |-> None],
              data_loader |-> g.data_loader, graphs |-> g.graphs,
              self |-> obj, constructed |-> FALSE, loaded |-> FALSE]
        ELSE [service |->
                  [model |-> Some("FraudDetectionModel"),
                   feature_extractor |->
                       IF l.ok THEN Some(FraudFeatureExtractor(g.data_loader.v)) ELSE None,
                   risk_assessor |-> IF l.ok THEN Some("FraudRiskAssessor") ELSE None,
                   data_loader |-> Some("CSVDataLoader")],
              data_loader |-> g.data_loader, graphs |-> g.graphs,
              self |-> l.self, constructed |-> TRUE, loaded |-> l.ok]

\* get_fraud_service(): the singleton is constructed on first use
get_fraud_service ==
    IF ~IsNone(fraud_service)
    THEN [service |-> fraud_service.v, data_loader |-> data_loader, graphs |-> graphs,
          self |-> Self, constructed |-> FALSE, loaded |-> FALSE]
    ELSE FraudDetectionService(data_loader, data_dir, graphs, files, Self)

\* FraudDetectionService.is_ready()
is_ready(self) == ~IsNone(self.model) /\ ~IsNone(self.feature_extractor)

\* what a detection call did: its outcome, and whether it reached the
\* feature extraction and the scoring
Detection(res, extracted, scored) ==
    [res |-> res, extracted |-> extracted, scored |-> scored]

\* claim_details[claim_id]: the first row of claims_df with that id
HasClaim(claims_df, claim_id) == \E k \in 1..Len(claims_df) : claims_df[k].claim_id = claim_id
ClaimDetails(claims_df, claim_id) ==
    claims_df[CHOOSE k \in 1..Len(claims_df) :
                 /\ claims_df[k].claim_id = claim_id
                 /\ \A j \in 1..(k - 1) : claims_df[j].claim_id # claim_id]

\* assessment.update({...}) for a claim found in claim_details
WithDetails(assessment, claims_df) ==
    IF ~HasClaim(claims_df, assessment.claim_id) THEN assessment
    ELSE LET details == ClaimDetails(claims_df, assessment.claim_id)
         IN  [f \in DOMAIN assessment \cup
                    {"patient_id", "provider_id", "claim_amount", "actual_fraud_label"} |->
                 IF f = "patient_id" THEN details.patient_id
                 ELSE IF f = "provider_id" THEN details.provider_id
                 ELSE IF f = "claim_amount" THEN details.claim_amount
                 ELSE IF f = "actual_fraud_label"
                 THEN ("is_fraudulent" \in DOMAIN details) /\ details.is_fraudulent
                 ELSE assessment[f]]

\* features_df.fillna(0)
fillna(X) ==
    [k \in 1..Len(X) |->
        [X[k] EXCEPT !.vals = [i \in 1..Len(@) |-> IF @[i] = NaN THEN 0 ELSE @[i]]]]

\* the part the two detection methods share: from the extracted features
\* to the assessments with the claim details and the explanations
AssessFeatures(obj, claims_df, features_df) ==
    IF features_df.raised # "" THEN Detection(features_df, TRUE, FALSE)
    ELSE LET claim_ids_ordered == features_df.value[1].vals
             X == fillna(Tail(features_df.value))
             assessments == assess_claims(obj, X, claim_ids_ordered)
         IN  IF assessments.raised # "" THEN Detection(assessments, TRUE, TRUE)
             ELSE Detection(Returned([i \in 1..Len(assessments.value) |->
                                         WithExplanation(
                                             WithDetails(assessments.value[i], claims_df))]),
                            TRUE, TRUE)

\* FraudDetectionModel.get_training_info() is training_metadata;
\* FraudDetectionService.get_model_performance() on the model object obj
get_model_performance(self, obj) ==
    IF IsNone(self.model) THEN Raised("ValueError: Model not loaded")
    ELSE IF obj.training_metadata = EmptyMetadata
    THEN Returned([error |-> "No training information available"])
    ELSE Returned(obj.training_metadata)

\* FraudDetectionService.get_feature_importance(top_n)
service_get_feature_importance(self, obj, top_n) ==
    IF IsNone(self.model) THEN Raised("ValueError: Model not loaded")
    ELSE LET importance_df == get_feature_importance(obj)
         IN  IF importance_df.raised # "" THEN importance_df
             ELSE Returned(Prefix(importance_df.value, top_n))

\* DataFrame.head(n)
head(df, n) == IF n >= 0 THEN Prefix(df, n) ELSE Prefix(df, Max(Len(df) + n, 0))

\* FraudDetectionService.detect_fraud_all_claims(limit); limit is None or Some n
detect_fraud_all_claims(self, loader, obj, heap, limit) ==
    IF IsNone(self.model) \/ IsNone(self.feature_extractor)
    THEN Detection(Raised("ValueError: Model not loaded"), FALSE, FALSE)
    ELSE IF IsNone(loader.v.claims_df)
    THEN Detection(Raised("AttributeError"), FALSE, FALSE)
    ELSE LET claims_df == IF IsNone(limit) \/ limit.v = 0 THEN loader.v.claims_df.v
                          ELSE head(loader.v.claims_df.v, limit.v)
             claim_ids == [i \in 1..Len(claims_df) |-> claims_df[i].claim_id]
         IN  AssessFeatures(obj, claims_df,
                            extract_all_features(self.feature_extractor.v, heap,
                                                 Some(claim_ids)))

\* FraudDetectionService.detect_fraud_by_claim_ids(claim_ids)
detect_fraud_by_claim_ids(self, loader, obj, heap, claim_ids) ==
    IF IsNone(self.model) \/ IsNone(self.feature_extractor)
    THEN Detection(Raised("ValueError: Model not loaded"), FALSE, FALSE)
    ELSE IF IsNone(loader.v.claims_df)
    THEN Detection(Raised("TypeError"), FALSE, FALSE)
    ELSE LET claims_df == IsIn(loader.v.claims_df.v, claim_ids)
         IN  IF Len(claims_df) = 0 THEN Detection(Returned(<<>>), FALSE, FALSE)
             ELSE AssessFeatures(obj, claims_df,
                                 extract_all_features(self.feature_extractor.v, heap,
                                                      Some(claim_ids)))

----------------------------------------------------------------------------
(* The calls on the service and on its extractor, one action per call *)

MaxIds == 2         \* claim ids in one request
MaxLoads == 2       \* rebuilds of the graph in one behaviour

\* nothing under data/, no loader, no service, no call in flight
StoreIdle ==
    /\ data_dir = EmptyDir
    /\ graphs = <<>>
    /\ data_loader = None
    /\ fraud_service = None
    /\ load = Idle
    /\ reader = Idle

\* no train() and no predict_proba() in flight, nothing on disk
RestIdle ==
    /\ files = <<>>
    /\ saved_objects = <<>>
    /\ clock = 1
    /\ AuthIdle
    /\ train = Idle
    /\ completed = {}
    /\ pred = Idle
    /\ StoreIdle

NoThreads == train.pc = "idle" /\ load.pc = "idle" /\ reader.pc \in {"idle", "done"}

\* the state an endpoint leaves that fetched the service as w and got r
ServiceCalled(op, arg, w, r) ==
    /\ fraud_service' = Some(w.service)
    /\ data_loader' = w.data_loader
    /\ graphs' = w.graphs
    /\ model' = w.self.model
    /\ scaler' = w.self.scaler
    /\ feature_names' = w.self.feature_names
    /\ training_metadata' = w.self.training_metadata
    /\ model_path' = IF w.constructed THEN ServicePath ELSE model_path
    /\ completed' = IF w.loaded THEN completed \cup {Artifact(w.self)} ELSE completed
    /\ call' = [op |-> op, arg |-> arg, res |-> r.res, ready |-> is_ready(w.service),
                extracted |-> r.extracted, scored |-> r.scored]
    /\ UNCHANGED <<diskVars, authVars, clock, train, pred, data_dir, load, reader>>

\* get_fraud_service().detect_fraud_all_claims(limit)
DetectFraudAllClaimsCall(limit) ==
    /\ NoThreads
    /\ LET w == get_fraud_service
       IN  ServiceCalled("detect_fraud_all_claims", limit, w,
                         detect_fraud_all_claims(w.service, w.data_loader, w.self,
                                                 w.graphs, limit))

\* get_fraud_service().detect_fraud_by_claim_ids(claim_ids)
DetectFraudByClaimIdsCall(claim_ids) ==
    /\ NoThreads
    /\ LET w == get_fraud_service
       IN  ServiceCalled("detect_fraud_by_claim_ids", claim_ids, w,
                         detect_fraud_by_claim_ids(w.service, w.data_loader, w.self,
                                                   w.graphs, claim_ids))

\* get_model_performance() on the service
GetModelPerformanceCall ==
    /\ NoThreads
    /\ LET w == get_fraud_service
       IN  ServiceCalled("get_model_performance", <<>>, w,
                         Detection(get_model_performance(w.service, w.self), FALSE, FALSE))

\* get_feature_importance(top_n) on the service
DefaultTopN == 20
GetFeatureImportanceCall ==
    /\ NoThreads
    /\ LET w == get_fraud_service
       IN  ServiceCalled("get_feature_importance", DefaultTopN, w,
                         Detection(service_get_feature_importance(w.service, w.self,
                                                                  DefaultTopN),
                                   FALSE, FALSE))

\* generate_explanation on the explainer singleton
GenerateExplanationCall(risk_factors, fraud_probability, level) ==
    /\ NoThreads
    /\ call' = [op |-> "generate_explanation",
                arg |-> [risk_factors |-> risk_factors,
                         fraud_probability |-> fraud_probability,
                         risk_level |-> level],
                res |-> Returned(generate_explanation(<<>>, risk_factors,
                                                      fraud_probability, level))]
    /\ UNCHANGED <<modelVars, restVars>>

\* extract_all_features(claim_ids) on the service's extractor
ExtractAllFeaturesCall(claim_ids) ==
    /\ NoThreads
    /\ ~IsNone(fraud_service)
    /\ ~IsNone(fraud_service.v.feature_extractor)
    /\ call' = [op |-> "extract_all_features", arg |-> claim_ids,
                res |-> extract_all_features(fraud_service.v.feature_extractor.v,
                                             graphs, claim_ids),
                metrics |-> graph_metrics(fraud_service.v.feature_extractor.v,
                                          graphs, claim_ids)]
    /\ UNCHANGED <<modelVars, restVars>>

\* one turn of the distance loop of _extract_graph_features: the distance of
\* a claim's patient and provider in the graph the extractor refers to
GraphDistanceCall(patient_id, provider_id) ==
    /\ NoThreads
    /\ graphs # <<>>
    /\ call' = [op |-> "graph_distance", arg |-> <<patient_id, provider_id>>,
                res |-> graph_distance(graphs[Len(graphs)], patient_id, provider_id)]
    /\ UNCHANGED <<modelVars, restVars>>

----------------------------------------------------------------------------
(* CSVDataLoader.load_data on the singleton, statement by statement, as the
   dataset endpoints run it while other requests read the loader *)

LoadStart(op, arg) ==
    /\ load.pc = "idle"
    /\ ~IsNone(data_loader)
    /\ Len(graphs) <= MaxLoads
    /\ load' = [pc |-> "read", i |-> 1, op |-> op, arg |-> arg, backup |-> data_dir]

\* what the endpoint answers with once load_data returned
LoadedCounts(self) ==
    [total_patients |-> IF IsNone(self.patients_df) THEN 0 ELSE Len(self.patients_df.v),
     total_providers |-> IF IsNone(self.providers_df) THEN 0 ELSE Len(self.providers_df.v),
     total_claims |-> IF IsNone(self.claims_df) THEN 0 ELSE Len(self.claims_df.v)]

\* load_data returned or raised: upload_dataset puts the backup of data/
\* back when it raised
LoadReturn(res) ==
    /\ load' = Idle
    /\ data_dir' = IF res.raised # "" /\ load.op = "upload_dataset" THEN load.backup
                   ELSE data_dir
    /\ call' = [op |-> load.op, arg |-> load.arg, res |-> res]

\* load_sample_dataset: get_data_loader().load_data()
LoadSampleDataset ==
    /\ LoadStart("load_sample_dataset", <<>>)
    /\ UNCHANGED <<modelVars, diskVars, authVars, trainVars, pred, data_dir, graphs,
                   data_loader, fraud_service, reader, call>>

\* upload_dataset: the uploaded files replace those under data/, then
\* get_data_loader().load_data()
UploadDataset(dataset) ==
    /\ LoadStart("upload_dataset", dataset)
    /\ data_dir' = dataset
    /\ UNCHANGED <<modelVars, diskVars, authVars, trainVars, pred, graphs, data_loader,
                   fraud_service, reader, call>>

\* self.<table> = pd.read_csv(...), lines 37-44 one at a time
LoadReadTable ==
    /\ load.pc = "read"
    /\ LET t == TableOrder[load.i]
           df == read_csv(data_dir, CsvFile[t])
       IN  IF df.raised = "FileNotFoundError"
           THEN LoadReturn(Returned(LoadedCounts(data_loader.v))) /\ UNCHANGED data_loader
           ELSE IF df.raised # ""
           THEN LoadReturn(Raised(df.raised)) /\ UNCHANGED data_loader
           ELSE /\ data_loader' = Some([data_loader.v EXCEPT ![t] = Some(df.value)])
                /\ load' = IF load.i = Len(TableOrder) THEN [load EXCEPT !.pc = "new_graph"]
                           ELSE [load EXCEPT !.i = @ + 1]
                /\ UNCHANGED <<call, data_dir>>
    /\ UNCHANGED <<modelVars, diskVars, authVars, trainVars, pred, graphs, fraud_service, reader>>

\* self.graph = nx.Graph()
BuildGraphNew ==
    /\ load.pc = "new_graph"
    /\ graphs' = Append(graphs, EmptyGraph)
    /\ data_loader' = Some([data_loader.v EXCEPT !.graph = Some(Len(graphs) + 1)])
    /\ load' = [load EXCEPT !.pc = "patients", !.i = 1]
    /\ UNCHANGED <<modelVars, diskVars, authVars, trainVars, pred, data_dir, fraud_service,
                   reader, call>>

\* one turn of a node loop of _build_graph on the loader's graph object; a
\* row without the key column raises KeyError out of load_data
BuildAddNode(pc, df, key, node_type, next) ==
    /\ load.pc = pc
    /\ IF load.i > Len(df)
       THEN /\ load' = [load EXCEPT !.pc = next, !.i = 1]
            /\ UNCHANGED <<graphs, call, data_dir>>
       ELSE IF key \notin DOMAIN df[load.i]
       THEN LoadReturn(Raised("KeyError")) /\ UNCHANGED graphs
       ELSE /\ graphs' = [graphs EXCEPT ![data_loader.v.graph.v] =
                             add_node(@, df[load.i][key], node_type)]
            /\ load' = [load EXCEPT !.i = @ + 1]
            /\ UNCHANGED <<call, data_dir>>
    /\ UNCHANGED <<modelVars, diskVars, authVars, trainVars, pred, data_loader, fraud_service, reader>>

BuildAddPatient ==
    /\ load.pc = "patients"
    /\ BuildAddNode("patients", data_loader.v.patients_df.v, "patient_id", "patient",
                    "providers")

BuildAddProvider ==
    /\ load.pc = "providers"
    /\ BuildAddNode("providers", data_loader.v.providers_df.v, "provider_id", "provider",
                    "claims")

\* one turn of the edge loop; past its end load_data returns to the endpoint
BuildAddEdge ==
    /\ load.pc = "claims"
    /\ LET df == data_loader.v.claims_df.v
       IN  IF load.i > Len(df)
           THEN LoadReturn(Returned(LoadedCounts(data_loader.v))) /\ UNCHANGED graphs
           ELSE /\ graphs' = [graphs EXCEPT ![data_loader.v.graph.v] =
                                 add_edge(@, df[load.i].patient_id, df[load.i].provider_id)]
                /\ load' = [load EXCEPT !.i = @ + 1]
                /\ UNCHANGED <<call, data_dir>>
    /\ UNCHANGED <<modelVars, diskVars, authVars, trainVars, pred, data_loader, fraud_service, reader>>

LoadStep ==
    \/ LoadReadTable
    \/ BuildGraphNew
    \/ BuildAddPatient
    \/ BuildAddProvider
    \/ BuildAddEdge

----------------------------------------------------------------------------
(* FraudFeatureExtractor.__init__ run by a request thread: it reads the
   loader's attributes one after the other *)

ReaderOrder == <<"patients_df", "providers_df", "claims_df", "graph">>

ExtractorInitStart ==
    /\ reader.pc \in {"idle", "done"}
    /\ ~IsNone(data_loader)
    /\ reader' = [pc |-> "read", i |-> 1,
                  self |-> [patients_df |-> None, providers_df |-> None,
                            claims_df |-> None, graph |-> None]]
    /\ UNCHANGED <<modelVars, diskVars, authVars, trainVars, pred, data_dir, graphs,
                   data_loader, fraud_service, load, call>>

\* self.<attribute> = data_loader.<attribute>
ExtractorInitRead ==
    /\ reader.pc = "read"
    /\ LET a == ReaderOrder[reader.i]
       IN  reader' = [pc |-> IF reader.i = Len(ReaderOrder) THEN "done" ELSE "read",
                      i |-> reader.i + 1,
                      self |-> [reader.self EXCEPT ![a] = data_loader.v[a]]]
    /\ UNCHANGED <<modelVars, diskVars, authVars, trainVars, pred, data_dir, graphs,
                   data_loader, fraud_service, load, call>>

----------------------------------------------------------------------------
(* SpecTrain: a loaded artifact serving predict_proba while train() runs on
   the same object in another thread *)

LoadedSchema == <<"claim_amount", "is_night">>
LoadedObject ==
    [model |-> Some(FittedClassifier(0, LoadedSchema, 4999)),
     scaler |-> Some(FittedScaler(0, LoadedSchema)),
     feature_names |-> Some(LoadedSchema),
     training_metadata |-> Metadata(0, LoadedSchema)]

InitTrain ==
    /\ model = LoadedObject.model
    /\ scaler = LoadedObject.scaler
    /\ feature_names = LoadedObject.feature_names
    /\ training_metadata = LoadedObject.training_metadata
    /\ model_path = "models_storage"
    /\ files = <<>>
    /\ saved_objects = <<>>
    /\ clock = 1
    /\ AuthIdle
    /\ train = Idle
    /\ completed = {Artifact(LoadedObject)}
    /\ pred = Idle
    /\ StoreIdle
    /\ call = NoCall

NextTrain ==
    \/ \E X \in TrainMatrices, y \in Labels, use_smote \in BOOLEAN :
          TrainStart(X, y, use_smote)
    \/ TrainStep
    \/ \E X \in ScoreMatrices : PredStart(X)
    \/ PredStep

SpecTrain == InitTrain /\ [][NextTrain]_vars

----------------------------------------------------------------------------
(* SpecAlign: a loaded artifact of any schema scoring any feature matrix *)

AlignBiases == {0, 4999}

InitAlign ==
    /\ \E names \in Schemas, bias \in AlignBiases :
          /\ feature_names = Some(names)
          /\ scaler = Some(FittedScaler(1, names))
          /\ model = Some(FittedClassifier(1, names, bias))
          /\ training_metadata = Metadata(1, names)
    /\ model_path = "models_storage"
    /\ RestIdle
    /\ call = NoCall

\* one call per behaviour: the matrix is the input of the run
NextAlign ==
    /\ call.op = "none"
    /\ \E X \in Matrices :
          \/ AlignFeaturesCall(X)
          \/ PredictCall(X)
          \/ PredictProbaCall(X)

SpecAlign == InitAlign /\ [][NextAlign]_vars

----------------------------------------------------------------------------
(* SpecRisk: a loaded classifier of any bias, hence any probability, assessing
   a batch of claims *)

RiskSchema == <<"claim_amount", "is_night">>
RiskClaimIds == [i \in 1..NumRows |-> i]
RiskMatrices == {X \in Matrices : Len(X) <= 1}

InitRisk ==
    /\ \E bias \in 0..MaxProb :
          model = Some(FittedClassifier(1, RiskSchema, bias))
    /\ feature_names = Some(RiskSchema)
    /\ scaler = Some(FittedScaler(1, RiskSchema))
    /\ training_metadata = Metadata(1, RiskSchema)
    /\ model_path = "models_storage"
    /\ RestIdle
    /\ call = NoCall

NextRisk ==
    /\ call.op = "none"
    /\ \E X \in RiskMatrices : AssessClaimsCall(X, RiskClaimIds)

SpecRisk == InitRisk /\ [][NextRisk]_vars

----------------------------------------------------------------------------
(* SpecModel: one FraudDetectionModel object used by one caller at a time:
   constructed, trained, saved, loaded, asked for probabilities *)

InitModel ==
    /\ model = None
    /\ scaler = None
    /\ feature_names = None
    /\ training_metadata = EmptyMetadata
    /\ model_path = "models_storage"
    /\ RestIdle
    /\ call = NoCall

NextModel ==
    \/ \E path \in ModelPaths : NewModel(path)
    \/ \E X \in TrainMatrices, y \in Labels, use_smote \in BOOLEAN :
          TrainStart(X, y, use_smote)
    \/ \E model_name \in ModelNames : SaveCall(model_name)
    \/ \E model_name \in ModelNames : LoadCall(model_name)
    \/ \E X \in ScoreMatrices : PredictProbaCall(X)
    \/ TrainStep

SpecModel == InitModel /\ [][NextModel]_vars

----------------------------------------------------------------------------
(* SpecService: a process whose detection endpoints are called one at a
   time.  The first call constructs the service from what is on disk: any
   data directory, with or without a trained artifact. *)

ServiceSchema == <<"claim_amount", "graph_distance", "is_night">>
ServiceBiases == {0, 4999, 8000}
TrainedObject(bias) ==
    [model |-> Some(FittedClassifier(1, ServiceSchema, bias)),
     scaler |-> Some(FittedScaler(1, ServiceSchema)),
     feature_names |-> Some(ServiceSchema),
     training_metadata |-> Metadata(1, ServiceSchema)]

RequestIds == {"CLM1", "CLM2", "CLM9"}
ClaimIdLists == UNION {[1..n -> RequestIds] : n \in 0..MaxIds}

InitService ==
    /\ model = None
    /\ scaler = None
    /\ feature_names = None
    /\ training_metadata = EmptyMetadata
    /\ model_path = ServicePath
    /\ \/ files = <<>> /\ saved_objects = <<>>
       \/ \E bias \in ServiceBiases :
             LET model_file == ModelFile(ServicePath, ServiceModelName)
             IN  /\ files = WriteFile(<<>>, model_file, model_data(TrainedObject(bias)))
                 /\ saved_objects = WriteFile(<<>>, model_file, TrainedObject(bias))
    /\ clock = 1
    /\ AuthIdle
    /\ train = Idle
    /\ completed = {}
    /\ pred = Idle
    /\ \E dir \in DataDirs : data_dir = dir
    /\ graphs = <<>>
    /\ data_loader = None
    /\ fraud_service = None
    /\ load = Idle
    /\ reader = Idle
    /\ call = NoCall

NextService ==
    \/ DetectFraudAllClaimsCall(None)
    \/ \E limit \in 0..MaxIds : DetectFraudAllClaimsCall(Some(limit))
    \/ \E claim_ids \in ClaimIdLists : DetectFraudByClaimIdsCall(claim_ids)
    \/ ExtractAllFeaturesCall(None)
    \/ \E claim_ids \in ClaimIdLists : ExtractAllFeaturesCall(Some(claim_ids))
    \/ \E X \in ScoreMatrices : PredictCall(X)
    \/ \E X \in ScoreMatrices : PredictProbaCall(X)
    \/ GetModelPerformanceCall
    \/ GetFeatureImportanceCall
    \/ \E p \in ServiceBiases : GenerateExplanationCall(<<>>, p, risk_level(p))

SpecService == InitService /\ [][NextService]_vars

----------------------------------------------------------------------------
(* SpecEndpoints: the fraud detection endpoints, each a try block whose
   exceptions the handler turns into a response.  call.status_code is the
   status the client gets.  The OpenAI summary and insights, which never
   raise out of detect_fraud_with_insights, are left out of the result. *)

HTTP_200_OK == 200
HTTP_500_INTERNAL_SERVER_ERROR == 500
HTTP_503_SERVICE_UNAVAILABLE == 503

\* raise HTTPException(status_code=...); HTTPException is an Exception
HTTPException(status_code) ==
    [raised |-> "HTTPException", value |-> <<>>, status_code |-> status_code]

\* a FraudDetectionRequest
FraudDetectionRequest(claim_ids, limit) == [claim_ids |-> claim_ids, limit |-> limit]

\* `if claim_ids:` on an Optional[List[str]]
Truthy(claim_ids) == ~IsNone(claim_ids) /\ Len(claim_ids.v) > 0

\* CSVDataLoader.get_fraud_statistics() behind
\* FraudDetectionService.get_fraud_statistics()
get_fraud_statistics(self, loader) ==
    IF IsNone(self.data_loader) THEN Raised("ValueError: Data not loaded")
    ELSE IF IsNone(loader.v.claims_df) THEN Raised("TypeError")
    ELSE LET claims_df == loader.v.claims_df.v
         IN  IF \E k \in 1..Len(claims_df) : "is_fraudulent" \notin DOMAIN claims_df[k]
             THEN Raised("KeyError")
             ELSE Returned([total_claims |-> Len(claims_df),
                            fraudulent_claims |->
                                Cardinality({k \in 1..Len(claims_df) :
                                                claims_df[k].is_fraudulent})])

\* sum(1 for p in predictions if p['is_fraud_predicted'])
FraudDetected(predictions) ==
    Cardinality({i \in 1..Len(predictions) : predictions[i].is_fraud_predicted})

\* the detection either endpoint asks for
RequestedDetection(w, request) ==
    IF Truthy(request.claim_ids)
    THEN detect_fraud_by_claim_ids(w.service, w.data_loader, w.self, w.graphs,
                                   request.claim_ids.v)
    ELSE detect_fraud_all_claims(w.service, w.data_loader, w.self, w.graphs,
                                 request.limit)

\* the dictionary detect_fraud_with_insights makes of its assessments and
\* of the statistics
WithInsights(assessments, statistics) ==
    IF assessments.res.raised # "" THEN assessments
    ELSE IF statistics.raised # ""
    THEN Detection(statistics, assessments.extracted, assessments.scored)
    ELSE Detection(Returned([predictions |-> assessments.res.value,
                             statistics |-> statistics.value,
                             total_analyzed |-> Len(assessments.res.value),
                             fraud_detected |-> FraudDetected(assessments.res.value)]),
                   assessments.extracted, assessments.scored)

\* FraudDetectionService.detect_fraud_with_insights(limit, claim_ids)
detect_fraud_with_insights(w, request) ==
    WithInsights(RequestedDetection(w, request),
                 get_fraud_statistics(w.service, w.data_loader))

\* the readiness test that opens the try block of four endpoints
RequireReady(w, body) ==
    IF ~is_ready(w.service)
    THEN Detection(HTTPException(HTTP_503_SERVICE_UNAVAILABLE), FALSE, FALSE)
    ELSE body

\* FraudDetectionResponse(...) of the predictions
FraudDetectionResponse(predictions) ==
    IF predictions.res.raised # "" THEN predictions
    ELSE Detection(Returned([total_analyzed |-> Len(predictions.res.value),
                             fraud_detected |-> FraudDetected(predictions.res.value),
                             predictions |-> predictions.res.value]),
                   predictions.extracted, predictions.scored)

\* the try block of POST /detect
detect_fraud(w, request) ==
    RequireReady(w, FraudDetectionResponse(RequestedDetection(w, request)))

\* the try block of POST /detect-with-insights
detect_fraud_with_insights_endpoint(w, request) ==
    RequireReady(w, detect_fraud_with_insights(w, request))

\* the try block of GET /model/performance
get_model_performance_endpoint(w) ==
    RequireReady(w, Detection(get_model_performance(w.service, w.self), FALSE, FALSE))

\* the try block of GET /model/feature-importance
MaxTopN == 100
get_feature_importance_endpoint(w, top_n) ==
    RequireReady(w, Detection(service_get_feature_importance(w.service, w.self,
                                                             Min(top_n, MaxTopN)),
                              FALSE, FALSE))

\* the try block of GET /health
fraud_detection_health(w) ==
    Detection(Returned([status |-> IF is_ready(w.service) THEN "ready" ELSE "not_ready",
                        model_loaded |-> is_ready(w.service)]), FALSE, FALSE)

\* `except Exception as e: raise HTTPException(500)` around the try block,
\* the status of the decorator otherwise
ExceptException(res) ==
    IF res.raised # "" THEN HTTP_500_INTERNAL_SERVER_ERROR ELSE HTTP_200_OK

\* the state an endpoint leaves that fetched the service as w and whose
\* try block came out as r
EndpointCalled(op, arg, w, r) ==
    /\ fraud_service' = Some(w.service)
    /\ data_loader' = w.data_loader
    /\ graphs' = w.graphs
    /\ model' = w.self.model
    /\ scaler' = w.self.scaler
    /\ feature_names' = w.self.feature_names
    /\ training_metadata' = w.self.training_metadata
    /\ model_path' = IF w.constructed THEN ServicePath ELSE model_path
    /\ completed' = IF w.loaded THEN completed \cup {Artifact(w.self)} ELSE completed
    /\ call' = [op |-> op, arg |-> arg, res |-> r.res, ready |-> is_ready(w.service),
                extracted |-> r.extracted, scored |-> r.scored,
                status_code |-> ExceptException(r.res)]
    /\ UNCHANGED <<diskVars, authVars, clock, train, pred, data_dir, load, reader>>

PostDetect(request) ==
    /\ NoThreads
    /\ LET w == get_fraud_service
       IN  EndpointCalled("POST /detect", request, w, detect_fraud(w, request))

PostDetectWithInsights(request) ==
    /\ NoThreads
    /\ LET w == get_fraud_service
       IN  EndpointCalled("POST /detect-with-insights", request, w,
                          detect_fraud_with_insights_endpoint(w, request))

GetModelPerformance ==
    /\ NoThreads
    /\ LET w == get_fraud_service
       IN  EndpointCalled("GET /model/performance", <<>>, w,
                          get_model_performance_endpoint(w))

GetFeatureImportance(top_n) ==
    /\ NoThreads
    /\ LET w == get_fraud_service
       IN  EndpointCalled("GET /model/feature-importance", top_n, w,
                          get_feature_importance_endpoint(w, top_n))

GetHealth ==
    /\ NoThreads
    /\ LET w == get_fraud_service
       IN  EndpointCalled("GET /health", <<>>, w, fraud_detection_health(w))

\* the requests: claim_ids absent or a list, limit absent (0 here) or 1..MaxIds
EndpointRequest(given, ids, n) ==
    FraudDetectionRequest(IF given THEN Some(ids) ELSE None,
                          IF n = 0 THEN None ELSE Some(n))
TopNs == {1, DefaultTopN, MaxTopN + 1}

NextEndpoints ==
    \/ \E given \in BOOLEAN, ids \in ClaimIdLists, n \in 0..MaxIds :
          PostDetect(EndpointRequest(given, ids, n))
    \/ \E given \in BOOLEAN, ids \in ClaimIdLists, n \in 0..MaxIds :
          PostDetectWithInsights(EndpointRequest(given, ids, n))
    \/ GetModelPerformance
    \/ \E top_n \in TopNs : GetFeatureImportance(top_n)
    \/ GetHealth

SpecEndpoints == InitService /\ [][NextEndpoints]_vars

----------------------------------------------------------------------------
(* SpecReload: the loader holds the sample dataset; the dataset endpoints
   reload it while a request thread constructs a feature extractor on it *)

SampleLoader == LoadData(NewLoader, SampleDataset, <<>>)

InitReload ==
    /\ model = None
    /\ scaler = None
    /\ feature_names = None
    /\ training_metadata = EmptyMetadata
    /\ model_path = ServicePath
    /\ files = <<>>
    /\ saved_objects = <<>>
    /\ clock = 1
    /\ AuthIdle
    /\ train = Idle
    /\ completed = {}
    /\ pred = Idle
    /\ data_dir = SampleDataset
    /\ graphs = SampleLoader.graphs
    /\ data_loader = Some(SampleLoader.self)
    /\ fraud_service = None
    /\ load = Idle
    /\ reader = Idle
    /\ call = NoCall

NextReload ==
    \/ LoadSampleDataset
    \/ \E dataset \in Datasets : UploadDataset(dataset)
    \/ LoadStep
    \/ ExtractorInitStart
    \/ ExtractorInitRead

SpecReload == InitReload /\ [][NextReload]_vars

----------------------------------------------------------------------------
(* SpecGraph: the graph of any small store, asked for the distance of a
   patient and a provider that may or may not be among its nodes (the claim
   may come from tables loaded after the graph was built) *)

GraphPatients == <<"PAT1", "PAT2">>
GraphProviders == <<"PRV1", "PRV2">>
QueryPatients == {"PAT1", "PAT2", "PAT9"}
QueryProviders == {"PRV1", "PRV2"}

RECURSIVE Masked(_, _)
Masked(rows, mask) ==
    IF rows = <<>> THEN <<>>
    ELSE (IF Head(mask) THEN <<Head(rows)>> ELSE <<>>) \o Masked(Tail(rows), Tail(mask))
SubTables(rows) == {Masked(rows, mask) : mask \in [1..Len(rows) -> BOOLEAN]}

GraphClaims ==
    <<Claim("CLM1", "PAT1", "PRV1", 7, FALSE, "Inpatient", "Approved"),
      Claim("CLM2", "PAT2", "PRV1", 7, FALSE, "Inpatient", "Approved"),
      Claim("CLM3", "PAT2", "PRV2", 7, FALSE, "Inpatient", "Approved"),
      Claim("CLM4", "PAT1", "PRV2", 7, FALSE, "Inpatient", "Approved")>>

InitGraph ==
    /\ model = None
    /\ scaler = None
    /\ feature_names = None
    /\ training_metadata = EmptyMetadata
    /\ model_path = ServicePath
    /\ files = <<>>
    /\ saved_objects = <<>>
    /\ clock = 1
    /\ AuthIdle
    /\ train = Idle
    /\ completed = {}
    /\ pred = Idle
    /\ data_dir = EmptyDir
    /\ \E patients \in SubTables([i \in 1..Len(GraphPatients) |->
                                      Patient(GraphPatients[i], 30, "M")]),
          providers \in SubTables([i \in 1..Len(GraphProviders) |->
                                       Provider(GraphProviders[i], "Cardiology")]),
          claims \in SubTables(GraphClaims) :
          graphs = <<build_graph(patients, providers, claims)>>
    /\ data_loader = None
    /\ fraud_service = None
    /\ load = Idle
    /\ reader = Idle
    /\ call = NoCall

NextGraph ==
    \E patient_id \in QueryPatients, provider_id \in QueryProviders :
        GraphDistanceCall(patient_id, provider_id)

SpecGraph == InitGraph /\ [][NextGraph]_vars

----------------------------------------------------------------------------
(* SpecRate: a store in which provider PRV1 has up to MaxProviderClaims
   claims, some of them fraudulent, next to one claim of provider PRV2; the
   claims table comes with or without its fraud label, and a trained
   artifact is on disk *)

MaxProviderClaims == 10
RateClaimNames ==
    <<"CLM1", "CLM2", "CLM3", "CLM4", "CLM5", "CLM6", "CLM7", "CLM8",
      "CLM9", "CLM10", "CLM11", "CLM12">>

\* the claims of PRV1: the first `fraud` of them fraudulent
RateClaims(fraud, total) ==
    [k \in 1..total |->
        Claim(RateClaimNames[k], "PAT1", "PRV1", 7, k <= fraud, "Inpatient", "Approved")]

RateDataset(fraud, total, labeled) ==
    LET claims == RateClaims(fraud, total)
                  \o <<Claim("CLM0", "PAT1", "PRV2", 7, FALSE, "Inpatient", "Approved")>>
    IN  Dataset(<<Patient("PAT1", 30, "M")>>,
                <<Provider("PRV1", "Cardiology"), Provider("PRV2", "Oncology")>>,
                IF labeled THEN claims ELSE WithoutLabel(claims))

RateRequestIds == {"CLM0", "CLM1", "CLM2"}
RateIdLists == UNION {[1..n -> RateRequestIds] : n \in 0..MaxIds}

InitRate ==
    /\ model = None
    /\ scaler = None
    /\ feature_names = None
    /\ training_metadata = EmptyMetadata
    /\ model_path = ServicePath
    /\ LET model_file == ModelFile(ServicePath, ServiceModelName)
       IN  /\ files = WriteFile(<<>>, model_file, model_data(TrainedObject(0)))
           /\ saved_objects = WriteFile(<<>>, model_file, TrainedObject(0))
    /\ clock = 1
    /\ AuthIdle
    /\ train = Idle
    /\ completed = {}
    /\ pred = Idle
    /\ \E total \in 1..MaxProviderClaims, labeled \in BOOLEAN :
          \E fraud \in 0..total : data_dir = RateDataset(fraud, total, labeled)
    /\ graphs = <<>>
    /\ data_loader = None
    /\ fraud_service = None
    /\ load = Idle
    /\ reader = Idle
    /\ call = NoCall

NextRate ==
    \/ DetectFraudAllClaimsCall(Some(0))
    \/ ExtractAllFeaturesCall(None)
    \/ \E claim_ids \in RateIdLists : ExtractAllFeaturesCall(Some(claim_ids))

SpecRate == InitRate /\ [][NextRate]_vars

----------------------------------------------------------------------------
(* SpecFactors: a loaded classifier trained on six features assessing a batch
   of claims whose features are each zero or significant *)

FactorSchema ==
    <<"claim_amount", "patient_num_claims", "provider_num_claims",
      "patient_degree", "graph_distance", "is_night">>
FactorMatrices ==
    {[k \in 1..Len(FactorSchema) |-> Col(FactorSchema[k], v[k])] :
        v \in [1..Len(FactorSchema) -> [1..NumRows -> FeatureVals]]}

InitFactors ==
    /\ \E bias \in ServiceBiases :
          model = Some(FittedClassifier(1, FactorSchema, bias))
    /\ feature_names = Some(FactorSchema)
    /\ scaler = Some(FittedScaler(1, FactorSchema))
    /\ training_metadata = Metadata(1, FactorSchema)
    /\ model_path = "models_storage"
    /\ RestIdle
    /\ call = NoCall

NextFactors ==
    /\ call.op = "none"
    /\ \E X \in FactorMatrices : AssessClaimsCall(X, RiskClaimIds)

SpecFactors == InitFactors /\ [][NextFactors]_vars

----------------------------------------------------------------------------
(* SpecExplain: the explainer asked to explain assessments of every risk
   level with up to three risk factors, templated or not, whose values lie
   at, below and above the thresholds *)

ExplainProbabilities == {0, 1999, 2000, 4000, 6000, 8000, 9000}
Factor(factor, value) == [factor |-> factor, value |-> value]
ExplainFactors ==
    {Factor("days_since_policy_start", v) : v \in {29, 30, 31}}
        \cup {Factor("provider_fraud_rate", v) : v \in {1499, 1500}}
        \cup {Factor("patient_claim_frequency", v * MaxProb) : v \in {9, 10}}
        \cup {Factor("claim_amount", v) : v \in {1, 2}}
ExplainFactorLists == UNION {[1..n -> ExplainFactors] : n \in 0..MaxRiskFactors}

InitExplain ==
    /\ model = None
    /\ scaler = None
    /\ feature_names = None
    /\ training_metadata = EmptyMetadata
    /\ model_path = "models_storage"
    /\ RestIdle
    /\ call = NoCall

NextExplain ==
    /\ call.op = "none"
    /\ \E risk_factors \in ExplainFactorLists, p \in ExplainProbabilities :
          GenerateExplanationCall(risk_factors, p, risk_level(p))

SpecExplain == InitExplain /\ [][NextExplain]_vars

----------------------------------------------------------------------------
(* SpecTemporal: a store in which patient PAT1 has up to MaxPatientClaims
   claims, each on one of two days at a time around the limits of the night;
   a trained artifact is on disk *)

MaxPatientClaims == 2
TemporalDates ==
    {ServiceDate(day, t[1], t[2]) :
        day \in {1, 2}, t \in {<<5, 59>>, <<6, 0>>, <<20, 0>>, <<20, 30>>, <<21, 0>>}}

TemporalDataset(dates) ==
    Dataset(<<Patient("PAT1", 30, "M")>>,
            <<Provider("PRV1", "Cardiology")>>,
            [k \in 1..Len(dates) |->
                At(Claim(RateClaimNames[k], "PAT1", "PRV1", 7, FALSE, "Inpatient", "Approved"),
                   dates[k])])

InitTemporal ==
    /\ model = None
    /\ scaler = None
    /\ feature_names = None
    /\ training_metadata = EmptyMetadata
    /\ model_path = ServicePath
    /\ LET model_file == ModelFile(ServicePath, ServiceModelName)
       IN  /\ files = WriteFile(<<>>, model_file, model_data(TrainedObject(0)))
           /\ saved_objects = WriteFile(<<>>, model_file, TrainedObject(0))
    /\ clock = 1
    /\ AuthIdle
    /\ train = Idle
    /\ completed = {}
    /\ pred = Idle
    /\ \E n \in 1..MaxPatientClaims :
          \E dates \in [1..n -> TemporalDates] : data_dir = TemporalDataset(dates)
    /\ graphs = <<>>
    /\ data_loader = None
    /\ fraud_service = None
    /\ load = Idle
    /\ reader = Idle
    /\ call = NoCall

NextTemporal ==
    \/ DetectFraudAllClaimsCall(Some(0))
    \/ ExtractAllFeaturesCall(None)
    \/ ExtractAllFeaturesCall(Some(<<"CLM1">>))

SpecTemporal == InitTemporal /\ [][NextTemporal]_vars

----------------------------------------------------------------------------
(* SpecLoads: the loader holds the sample dataset and a trained artifact is
   on disk; scoring requests and dataset reloads follow each other, one at a
   time.  One of the uploads fails in _build_graph. *)

UploadDatasets == {UploadedDataset, NoKeyDataset}
ScoredIdLists == {<<"CLM1">>, <<"CLM3">>}

InitLoads ==
    /\ model = None
    /\ scaler = None
    /\ feature_names = None
    /\ training_metadata = EmptyMetadata
    /\ model_path = ServicePath
    /\ LET model_file == ModelFile(ServicePath, ServiceModelName)
       IN  /\ files = WriteFile(<<>>, model_file, model_data(TrainedObject(0)))
           /\ saved_objects = WriteFile(<<>>, model_file, TrainedObject(0))
    /\ clock = 1
    /\ AuthIdle
    /\ train = Idle
    /\ completed = {}
    /\ pred = Idle
    /\ data_dir = SampleDataset
    /\ graphs = SampleLoader.graphs
    /\ data_loader = Some(SampleLoader.self)
    /\ fraud_service = None
    /\ load = Idle
    /\ reader = Idle
    /\ call = NoCall

NextLoads ==
    \/ LoadSampleDataset
    \/ \E dataset \in UploadDatasets : UploadDataset(dataset)
    \/ LoadStep
    \/ DetectFraudAllClaimsCall(None)
    \/ \E claim_ids \in ScoredIdLists : DetectFraudByClaimIdsCall(claim_ids)

SpecLoads == InitLoads /\ [][NextLoads]_vars

----------------------------------------------------------------------------
(* Authentication: security.py, dependencies.py and the /auth endpoints.
   A JWT is its payload with the key that signed it.  Every request runs in
   a worker thread with a database session of its own: a query reads the
   committed rows and commit() writes the changes of the session.  The
   token column of refresh_tokens is unique; the users table is the one
   the registrations left. *)

jwt_secret_key == "JWT_SECRET_KEY"
access_token_expire == 1        \* settings.access_token_expire_minutes, in ticks
refresh_token_expire == 2       \* settings.refresh_token_expire_days, in ticks
MaxTime == 3                    \* ticks of the clock
MaxRows == 3                    \* rows of refresh_tokens

HTTP_400_BAD_REQUEST == 400
HTTP_401_UNAUTHORIZED == 401

\* jwt.encode(payload, key) and jwt.decode(token, key), which raises
\* JWTError on another key and on a token past its exp
jwt_encode(payload, key) == [payload |-> payload, key |-> key]
jwt_decode(token, key, now) ==
    IF token.key # key THEN Raised("JWTError")
    ELSE IF token.payload.exp < now THEN Raised("JWTError")
    ELSE Returned(token.payload)

create_access_token(data, now) ==
    jwt_encode([sub |-> data.sub, exp |-> now + access_token_expire, iat |-> now],
               jwt_secret_key)

create_refresh_token(data, now) ==
    jwt_encode([sub |-> data.sub, exp |-> now + refresh_token_expire, iat |-> now,
                type |-> "refresh"],
               jwt_secret_key)

decode_token(token, now) ==
    LET payload == jwt_decode(token, jwt_secret_key, now)
    IN  IF payload.raised # "" THEN None ELSE Some(payload.value)

\* payload.get(key)
Get(payload, key) == IF key \in DOMAIN payload THEN Some(payload[key]) ELSE None

verify_token(token, now) ==
    LET payload == decode_token(token, now)
    IN  IF IsNone(payload) THEN None ELSE Get(payload.v, "sub")

\* pwd_context.hash and pwd_context.verify
get_password_hash(password) == <<"bcrypt", password>>
verify_password(plain_password, hashed_password) ==
    hashed_password = get_password_hash(plain_password)

\* str(user.id) and int(user_id)
Decimal == <<"1", "2">>
str(id) == Decimal[id]
int(user_id) == CHOOSE id \in 1..Len(Decimal) : Decimal[id] = user_id

Users ==
    <<[id |-> 1, email |-> "ann@example.com",
       hashed_password |-> get_password_hash("ann's password"), is_active |-> TRUE],
      [id |-> 2, email |-> "bob@example.com",
       hashed_password |-> get_password_hash("bob's password"), is_active |-> FALSE]>>
Emails == {"ann@example.com", "bob@example.com", "eve@example.com"}
Passwords == {"ann's password", "bob's password"}

\* query.first(): the first of the matching rows
First(matching) == CHOOSE k \in matching : \A j \in matching : k <= j

\* RefreshToken(user_id=..., token=..., expires_at=..., revoked=False)
RefreshToken(user_id, token, expires_at) ==
    [user_id |-> user_id, token |-> token, expires_at |-> expires_at, revoked |-> FALSE]

\* the INSERT of a commit fails on a token that is in the table
IntegrityError(token) ==
    \E k \in 1..Len(refresh_tokens) : refresh_tokens[k].token = token

\* the response of a request
Done(op, arg, status_code, body) ==
    [pc |-> "done", op |-> op, arg |-> arg, status_code |-> status_code, body |-> body]

Respond(r, response) == requests' = [requests EXCEPT ![r] = response]

Free(r) == requests[r].pc \in {"idle", "done"}

\* rows the requests in flight will add
Pending == Cardinality({r \in Workers : requests[r].pc = "refresh_fetched"})

nonAuthVars == <<modelVars, diskVars, trainVars, pred, storeVars, call>>

\* a token nobody issued: a refresh payload signed with another key
ForgedToken ==
    jwt_encode([sub |-> "1", exp |-> MaxTime + refresh_token_expire, iat |-> 1,
                type |-> "refresh"],
               "another key")

\* POST /auth/login
LoginUser(r, email, password) ==
    /\ Free(r)
    /\ LET arg == [email |-> email, password |-> password]
           matching == {k \in 1..Len(Users) : Users[k].email = email}
           user == Users[First(matching)]
           access_token == create_access_token([sub |-> str(user.id)], utcnow)
           refresh_token_str == create_refresh_token([sub |-> str(user.id)], utcnow)
       IN  IF matching = {} \/ ~verify_password(password, user.hashed_password)
           THEN /\ Respond(r, Done("login", arg, HTTP_401_UNAUTHORIZED, <<>>))
                /\ UNCHANGED <<refresh_tokens, issued>>
           ELSE IF ~user.is_active
           THEN /\ Respond(r, Done("login", arg, HTTP_400_BAD_REQUEST, <<>>))
                /\ UNCHANGED <<refresh_tokens, issued>>
           ELSE IF IntegrityError(refresh_token_str)
           THEN /\ Respond(r, Done("login", arg, HTTP_500_INTERNAL_SERVER_ERROR, <<>>))
                /\ UNCHANGED <<refresh_tokens, issued>>
           ELSE /\ Len(refresh_tokens) + Pending < MaxRows
                /\ refresh_tokens' =
                       Append(refresh_tokens,
                              RefreshToken(user.id, refresh_token_str,
                                           utcnow + refresh_token_expire))
                /\ Respond(r, Done("login", arg, HTTP_200_OK,
                                   [access_token |-> access_token,
                                    refresh_token |-> refresh_token_str]))
                /\ issued' = issued \cup {access_token, refresh_token_str}
    /\ UNCHANGED <<utcnow, accepted, nonAuthVars>>

\* POST /auth/refresh up to its query: the token is decoded and the row
\* that holds it, not revoked, is fetched
RefreshQuery(r, token) ==
    /\ Free(r)
    /\ LET payload == decode_token(token, utcnow)
           type == Get(payload.v, "type")
           user_id == Get(payload.v, "sub")
           matching == {k \in 1..Len(refresh_tokens) :
                           /\ refresh_tokens[k].token = token
                           /\ refresh_tokens[k].user_id = int(user_id.v)
                           /\ ~refresh_tokens[k].revoked}
           rejected == Done("refresh", token, HTTP_401_UNAUTHORIZED, <<>>)
       IN  IF IsNone(payload) THEN Respond(r, rejected)
           ELSE IF IsNone(type) THEN Respond(r, rejected)
           ELSE IF type.v # "refresh" THEN Respond(r, rejected)
           ELSE IF IsNone(user_id) THEN Respond(r, rejected)
           ELSE IF matching = {} THEN Respond(r, rejected)
           ELSE IF refresh_tokens[First(matching)].expires_at < utcnow
           THEN Respond(r, rejected)
           ELSE /\ Len(refresh_tokens) + Pending < MaxRows
                /\ Respond(r, [pc |-> "refresh_fetched", op |-> "refresh", arg |-> token,
                               user_id |-> user_id.v, id |-> First(matching)])
    /\ UNCHANGED <<utcnow, refresh_tokens, issued, accepted, nonAuthVars>>

\* POST /auth/refresh from the new tokens to the commit: the fetched row
\* is revoked and the new row added
RefreshCommit(r) ==
    /\ requests[r].pc = "refresh_fetched"
    /\ LET q == requests[r]
           access_token == create_access_token([sub |-> q.user_id], utcnow)
           new_refresh_token_str == create_refresh_token([sub |-> q.user_id], utcnow)
       IN  IF IntegrityError(new_refresh_token_str)
           THEN /\ Respond(r, Done("refresh", q.arg, HTTP_500_INTERNAL_SERVER_ERROR, <<>>))
                /\ UNCHANGED <<refresh_tokens, issued, accepted>>
           ELSE /\ refresh_tokens' =
                       Append([refresh_tokens EXCEPT ![q.id].revoked = TRUE],
                              RefreshToken(int(q.user_id), new_refresh_token_str,
                                           utcnow + refresh_token_expire))
                /\ Respond(r, Done("refresh", q.arg, HTTP_200_OK,
                                   [access_token |-> access_token,
                                    refresh_token |-> new_refresh_token_str]))
                /\ issued' = issued \cup {access_token, new_refresh_token_str}
                /\ accepted' = Append(accepted, q.arg)
    /\ UNCHANGED <<utcnow, nonAuthVars>>

\* POST /auth/logout up to its query
LogoutQuery(r, token) ==
    /\ Free(r)
    /\ LET matching == {k \in 1..Len(refresh_tokens) : refresh_tokens[k].token = token}
       IN  IF matching = {}
           THEN Respond(r, Done("logout", token, HTTP_200_OK, <<>>))
           ELSE Respond(r, [pc |-> "logout_fetched", op |-> "logout", arg |-> token,
                            id |-> First(matching)])
    /\ UNCHANGED <<utcnow, refresh_tokens, issued, accepted, nonAuthVars>>

\* POST /auth/logout: the fetched row is revoked and committed
LogoutCommit(r) ==
    /\ requests[r].pc = "logout_fetched"
    /\ refresh_tokens' = [refresh_tokens EXCEPT ![requests[r].id].revoked = TRUE]
    /\ Respond(r, Done("logout", requests[r].arg, HTTP_200_OK, <<>>))
    /\ UNCHANGED <<utcnow, issued, accepted, nonAuthVars>>

\* get_current_user(credentials) before an endpoint that depends on it
GetCurrentUser(r, token) ==
    /\ Free(r)
    /\ LET user_id == verify_token(token, utcnow)
           matching == {k \in 1..Len(Users) : Users[k].id = int(user_id.v)}
           user == Users[First(matching)]
       IN  IF IsNone(user_id)
           THEN Respond(r, Done("get_current_user", token, HTTP_401_UNAUTHORIZED, <<>>))
           ELSE IF matching = {}
           THEN Respond(r, Done("get_current_user", token, HTTP_401_UNAUTHORIZED, <<>>))
           ELSE IF ~user.is_active
           THEN Respond(r, Done("get_current_user", token, HTTP_400_BAD_REQUEST, <<>>))
           ELSE Respond(r, Done("get_current_user", token, HTTP_200_OK, user))
    /\ UNCHANGED <<utcnow, refresh_tokens, issued, accepted, nonAuthVars>>

\* time passes
Tick ==
    /\ utcnow < MaxTime
    /\ utcnow' = utcnow + 1
    /\ UNCHANGED <<refresh_tokens, requests, issued, accepted, nonAuthVars>>

(* SpecAuth: two worker threads serve logins, refreshes, logouts and
   authenticated requests of clients that present the tokens they were
   handed, or a forged one. *)

InitAuth ==
    /\ model = None
    /\ scaler = None
    /\ feature_names = None
    /\ training_metadata = EmptyMetadata
    /\ model_path = ServicePath
    /\ RestIdle
    /\ call = NoCall

NextAuth ==
    \/ \E r \in Workers, email \in Emails, password \in Passwords :
          LoginUser(r, email, password)
    \/ \E r \in Workers, token \in issued \cup {ForgedToken} : RefreshQuery(r, token)
    \/ \E r \in Workers : RefreshCommit(r)
    \/ \E r \in Workers, token \in issued \cup {ForgedToken} : LogoutQuery(r, token)
    \/ \E r \in Workers : LogoutCommit(r)
    \/ \E r \in Workers, token \in issued \cup {ForgedToken} : GetCurrentUser(r, token)
    \/ Tick

SpecAuth == InitAuth /\ [][NextAuth]_vars

----------------------------------------------------------------------------
(* Claims on alignment (SpecAlign) *)

ColumnOf(X, col) == X[CHOOSE i \in 1..Len(X) : X[i].name = col]
ColumnOrders(X) == {s \in DistinctSeqs(Range(X), Len(X)) : Len(s) = Len(X)}
AlignCalled == call.op = "_align_features"
ScoreCalled == call.op \in {"predict", "predict_proba"}

\* C2: _align_features(X) returns exactly the schema's columns in the schema's
\* order; a schema column absent from X is all zeros, a column of both keeps
\* X's values, every other column of X is dropped, and X is left as it was.
C2_AlignMatchesSchema ==
    AlignCalled =>
        /\ Columns(call.res.X_aligned) = feature_names.v
        /\ \A i \in 1..Len(call.res.X_aligned) :
              LET c == call.res.X_aligned[i]
              IN  IF HasColumn(call.arg, c.name)
                  THEN c.vals = ColumnOf(call.arg, c.name).vals
                  ELSE c.vals = [r \in 1..NRows(call.arg) |-> 0]
        /\ call.res.X = call.arg

\* a call whose X lacks a schema column, carries a foreign one and shares one
C2_Witness ==
    /\ AlignCalled
    /\ \E col \in Range(feature_names.v) : ~HasColumn(call.arg, col)
    /\ \E col \in Range(Columns(call.arg)) : col \notin Range(feature_names.v)
    /\ \E i \in 1..Len(call.arg) :
          /\ call.arg[i].name \in Range(feature_names.v)
          /\ \E r \in 1..NumRows : call.arg[i].vals[r] # 0

\* C8: predict and predict_proba give the classifier the same aligned and
\* scaled matrix, and return the same result, for every permutation of the
\* columns of X.
C8_ColumnOrderIrrelevant ==
    ScoreCalled =>
        \A P \in ColumnOrders(call.arg) :
            LET again == IF call.op = "predict" THEN predict(Self, P)
                         ELSE predict_proba(Self, P)
            IN  /\ again.X_aligned = call.res.X_aligned
                /\ again.X_scaled = call.res.X_scaled
                /\ again.out = call.res.out

\* a scored matrix whose two schema columns come in the opposite order
C8_Witness ==
    /\ call.op = "predict_proba"
    /\ call.res.out.raised = ""
    /\ Len(call.arg) >= 2
    /\ Len(feature_names.v) >= 2
    /\ call.arg[1].name = feature_names.v[2]
    /\ call.arg[2].name = feature_names.v[1]
    /\ call.arg[1].vals # call.arg[2].vals

\* C9: aligning the result of an alignment again returns it unchanged, and a
\* matrix whose columns already are the schema is returned as it is.
C9_AlignIdempotent ==
    AlignCalled =>
        /\ align_features(feature_names.v, call.res.X_aligned).X_aligned
               = call.res.X_aligned
        /\ Columns(call.arg) = feature_names.v => call.res.X_aligned = call.arg

\* an already aligned matrix with a non-zero value was aligned
C9_Witness ==
    /\ AlignCalled
    /\ Columns(call.arg) = feature_names.v
    /\ Len(call.arg) >= 2
    /\ \E i \in 1..Len(call.arg), r \in 1..NumRows : call.arg[i].vals[r] # 0

----------------------------------------------------------------------------
(* Claims on the risk levels (SpecRisk) *)

Severity(level) ==
    CASE level = "MINIMAL" -> 0
      [] level = "LOW" -> 1
      [] level = "MEDIUM" -> 2
      [] level = "HIGH" -> 3
      [] level = "CRITICAL" -> 4

Assessed == call.op = "assess_claims" /\ call.res.raised = ""

----------------------------------------------------------------------------
(* Claims on training and persistence (SpecTrain, SpecModel) *)

\* C4: a prediction that ran beside train() used a feature list, a scaler and
\* a classifier that all belong to one completed training run (or load):
\* never the new list or scaler with the old classifier, never an unfitted part.
C4_PredictionUsesOneArtifact ==
    pred.pc = "done" =>
        \E A \in completed :
            /\ pred.names_loop \in {None, A.feature_names}
            /\ pred.names_select \in {None, A.feature_names}
            /\ pred.scaler \in {None, A.scaler}
            /\ pred.model \in {None, A.model}

\* C6: when train() raises, the classifier, the scaler, the feature names and
\* the metadata are what they were before the call.
C6_FailedTrainChangesNothing ==
    (call.op = "train" /\ call.res.raised \notin {"", "in flight"}) =>
        /\ model = call.before.model
        /\ scaler = call.before.scaler
        /\ feature_names = call.before.feature_names
        /\ training_metadata = call.before.training_metadata

SavedFile == ModelFile(model_path, call.arg)
LoadedWhatTrainSaved ==
    /\ call.op = "load"
    /\ SavedFile \in DOMAIN saved_objects
    /\ Artifact(saved_objects[SavedFile]) \in completed

\* C7: load(name) of a file that save(name) wrote from a trained object returns
\* True and restores the saved classifier, scaler, feature names and metadata,
\* so predict_proba gives the same probabilities as the saved object did.
C7_SaveLoadRoundTrip ==
    LoadedWhatTrainSaved =>
        /\ call.res = Returned(TRUE)
        /\ Self = saved_objects[SavedFile]
        /\ \A X \in ScoreMatrices :
              predict_proba(Self, X).out = predict_proba(saved_objects[SavedFile], X).out

\* a fresh object loaded a trained artifact and scores with it
C7_Witness ==
    /\ LoadedWhatTrainSaved
    /\ IsNone(call.before.model)
    /\ ~IsNone(model)
    /\ \E X \in ScoreMatrices : predict_proba(Self, X).out.raised = ""

----------------------------------------------------------------------------
(* Claims on the service and the store (SpecService, SpecReload) *)

DetectCalled == call.op \in {"detect_fraud_all_claims", "detect_fraud_by_claim_ids"}

\* C1: with no classifier in the model object, predict and predict_proba
\* raise 'Model not trained or loaded' and hand back no prediction; a
\* service that is not ready raises 'Model not loaded' from both detection
\* methods before it extracts any feature or scores anything.
C1_UnavailableModelRaises ==
    /\ (ScoreCalled /\ IsNone(model)) =>
           /\ call.res.out = Raised("ValueError: Model not trained or loaded")
           /\ call.res.X_aligned = <<>>
           /\ call.res.X_scaled = <<>>
    /\ (DetectCalled /\ ~call.ready) =>
           /\ call.res = Raised("ValueError: Model not loaded")
           /\ ~call.extracted
           /\ ~call.scored

\* a service constructed without an artifact refused a detection, and the
\* model object it holds then refused a prediction
C1_Witness ==
    /\ ~IsNone(fraud_service)
    /\ ~is_ready(fraud_service.v)
    /\ ScoreCalled
    /\ IsNone(model)
    /\ call.res.out.raised # ""

\* C5: a feature extractor constructed while load_data runs again holds
\* tables and a graph that belong together: its graph is the complete graph
\* of its tables, never an empty or partly built one and never the graph of
\* the tables loaded before.
C5_RebuildIsAtomic ==
    (reader.pc = "done" /\ ~IsNone(reader.self.graph)) =>
        graphs[reader.self.graph.v] =
            build_graph(reader.self.patients_df.v, reader.self.providers_df.v,
                        reader.self.claims_df.v)

ExtractCalled == call.op = "extract_all_features"
StoreOf(extractor) == extractor.claims_df.v
Matching(df, claim_ids) == IF IsNone(claim_ids) THEN df ELSE IsIn(df, claim_ids.v)
StoreLoaded(extractor) ==
    /\ ~IsNone(extractor.patients_df)
    /\ ~IsNone(extractor.providers_df)
    /\ ~IsNone(extractor.claims_df)
    /\ ~IsNone(extractor.graph)

\* C10: on a loaded store extract_all_features returns one row for each
\* claim whose id is requested (for every claim when no ids are given), in
\* the order of the store, and does not raise for ids that match nothing;
\* detect_fraud_by_claim_ids returns [] when no requested id matches.
C10_OneRowPerMatchingClaim ==
    /\ (ExtractCalled /\ StoreLoaded(fraud_service.v.feature_extractor.v)) =>
           LET matching == Matching(StoreOf(fraud_service.v.feature_extractor.v), call.arg)
           IN  /\ call.res.raised = ""
               /\ call.res.value[1].vals = [i \in 1..Len(matching) |-> matching[i].claim_id]
               /\ \A k \in 1..Len(call.res.value) :
                     Len(call.res.value[k].vals) = Len(matching)
    /\ (call.op = "detect_fraud_by_claim_ids" /\ call.ready
            /\ ~IsNone(data_loader.v.claims_df)
            /\ IsIn(data_loader.v.claims_df.v, call.arg) = <<>>) =>
           call.res = Returned(<<>>)

----------------------------------------------------------------------------
(* Claims on the extracted features (SpecService) *)

Extracted == ExtractCalled /\ call.res.raised = ""
Extractor == fraud_service.v.feature_extractor.v

\* the feature row of a claim in an extracted frame: the set of its
\* (column, value) pairs, the claim_id column aside
RowIndex(F, claim_id) == CHOOSE i \in 1..Len(F[1].vals) : F[1].vals[i] = claim_id
FeatureRow(F, claim_id) ==
    {<<F[k].name, F[k].vals[RowIndex(F, claim_id)]>> : k \in 2..Len(F)}

\* C11: the feature row extracted for a claim is the same, columns and
\* values, in every request that names the claim, whatever the order of the
\* ids and whatever other claims are requested with it.
C11_RowIndependentOfRequest ==
    (Extracted /\ ~IsNone(call.arg)) =>
        \A other_ids \in ClaimIdLists :
            LET other == extract_all_features(Extractor, graphs, Some(other_ids))
            IN  other.raised = "" =>
                    \A claim_id \in Range(call.arg.v) \cap Range(other_ids)
                                    \cap Range(call.res.value[1].vals) :
                        FeatureRow(call.res.value, claim_id) = FeatureRow(other.value, claim_id)

\* the values a column of the store takes, as indicator column names
Indicators(df, key, prefix, values) ==
    {prefix \o "_" \o values[k] : k \in {j \in 1..Len(values) : HasRow(df, key, values[j])}}

\* C12: whatever subset is requested, the extracted frame has one
\* claim_type column for each claim type and one status column for each
\* claim status that occurs in the full claims table.
C12_IndicatorsFromFullTable ==
    Extracted =>
        LET names == Range(Columns(call.res.value))
        IN  /\ Indicators(StoreOf(Extractor), "claim_type", "claim_type", ClaimTypes) \subseteq names
            /\ Indicators(StoreOf(Extractor), "claim_status", "status", ClaimStatuses) \subseteq names

\* C13: a claim whose patient_id has no row in the patients table gets no
\* row in the extracted frame, and the other claims of its batch are
\* extracted all the same.
C13_OrphanClaimExcluded ==
    (ExtractCalled /\ StoreLoaded(Extractor)) =>
        LET matching == Matching(StoreOf(Extractor), call.arg)
            known == SelectSeq(matching, LAMBDA c :
                         HasRow(Extractor.patients_df.v, "patient_id", c.patient_id))
        IN  known # <<>> =>
                /\ call.res.raised = ""
                /\ call.res.value[1].vals = [i \in 1..Len(known) |-> known[i].claim_id]

\* C14: every feature value of every row extract_all_features returns is a
\* finite number; no missing value leaves the extractor.
C14_NoMissingValueLeaves ==
    Extracted =>
        \A k \in 2..Len(call.res.value) :
            \A i \in 1..Len(call.res.value[k].vals) : call.res.value[k].vals[i] # NaN

----------------------------------------------------------------------------
(* Claims on the graph distance (SpecGraph) *)

DistanceCalled == call.op = "graph_distance"

\* a walk of n hops from a to b along the edges of G
Walk(G, a, b, n) ==
    \E w \in [1..(n + 1) -> NodeIds(G)] :
        /\ w[1] = a
        /\ w[n + 1] = b
        /\ \A i \in 1..n : {w[i], w[i + 1]} \in G.edges
Hops(G, a, b) == {n \in 1..Cardinality(G.nodes) : Walk(G, a, b, n)}

\* C15: graph_distance is 1 when patient and provider share an edge, the
\* number of hops of a shortest path when they are connected only through
\* other nodes, and 999 when there is no path or one of them is no node.
C15_GraphDistance ==
    DistanceCalled =>
        LET G == graphs[Len(graphs)]
            a == call.arg[1]
            b == call.arg[2]
        IN  IF a \notin NodeIds(G) \/ b \notin NodeIds(G) THEN call.res = NoPathDistance
            ELSE IF {a, b} \in G.edges THEN call.res = 1
            ELSE IF Hops(G, a, b) = {} THEN call.res = NoPathDistance
            ELSE /\ call.res \in Hops(G, a, b)
                 /\ \A n \in Hops(G, a, b) : call.res <= n

\* a patient and a provider three hops apart
C15_Witness ==
    /\ DistanceCalled
    /\ call.arg[1] \in NodeIds(graphs[Len(graphs)])
    /\ call.arg[2] \in NodeIds(graphs[Len(graphs)])
    /\ {call.arg[1], call.arg[2]} \notin graphs[Len(graphs)].edges
    /\ call.res = 3

----------------------------------------------------------------------------
(* Claims on the provider fraud rate (SpecRate) *)

ClaimsOf(df, provider_id) == {k \in 1..Len(df) : df[k].provider_id = provider_id}
Labeled(df) == \A k \in 1..Len(df) : "is_fraudulent" \in DOMAIN df[k]

\* C16: provider_fraud_rate of a row is the number of fraudulent claims of
\* the claim's provider over the number of that provider's claims, both
\* counted in the full claims table whatever claims are requested (none of
\* ten gives 0, three of ten gives 0.3), and 0 when the table has no label.
C16_ProviderFraudRate ==
    Extracted =>
        LET F == call.res.value
            df == StoreOf(Extractor)
            rate == ColumnOf(F, "provider_fraud_rate").vals
        IN  \A i \in 1..Len(F[1].vals) :
                LET claim == RowOf(df, "claim_id", F[1].vals[i])
                    all == ClaimsOf(df, claim.provider_id)
                    fraudulent == {k \in all : df[k].is_fraudulent}
                IN  IF Labeled(df)
                    THEN rate[i] * Cardinality(all) = Cardinality(fraudulent) * MaxProb
                         \/ /\ rate[i] * Cardinality(all) < Cardinality(fraudulent) * MaxProb
                            /\ Cardinality(fraudulent) * MaxProb < (rate[i] + 1) * Cardinality(all)
                    ELSE rate[i] = 0

\* a request for one claim of a provider with three fraudulent claims of ten
C16_Witness ==
    /\ Extracted
    /\ ~IsNone(call.arg)
    /\ call.arg.v = <<"CLM1">>
    /\ Labeled(StoreOf(Extractor))
    /\ Cardinality(ClaimsOf(StoreOf(Extractor), "PRV1")) = 10
    /\ Cardinality({k \in ClaimsOf(StoreOf(Extractor), "PRV1") :
                        StoreOf(Extractor)[k].is_fraudulent}) = 3
    /\ ColumnOf(call.res.value, "provider_fraud_rate").vals = <<3 * (MaxProb \div 10)>>

----------------------------------------------------------------------------
(* Claims on the risk factors (SpecFactors) *)

\* the features in importance order, most important first
Ranking == [k \in 1..Len(get_feature_importance(Self).value) |->
               get_feature_importance(Self).value[k].feature]
Significant(X, i, feature) ==
    /\ HasColumn(X, feature)
    /\ 10 * Abs(ColumnOf(X, feature).vals[i]) > Unit(feature)

\* C17: the risk factors of an assessment are the first three, or all when
\* there are fewer, of the ten most important features whose value for the
\* claim is above 0.1 in absolute value, in importance order; so a
\* significant feature ranked sixth to tenth is among them when fewer than
\* three features ranked above it are significant.
C17_RiskFactorsFromTopTen ==
    Assessed =>
        \A i \in 1..Len(call.res.value) :
            LET candidates == SelectSeq(Prefix(Ranking, 10),
                                        LAMBDA f : Significant(call.arg, i, f))
                factors == call.res.value[i].risk_factors
            IN  /\ Len(factors) <= 3
                /\ [k \in 1..Len(factors) |-> factors[k].factor] = Prefix(candidates, 3)

----------------------------------------------------------------------------
(* Claims on the explanations (SpecExplain, SpecService) *)

Explained == call.op = "generate_explanation" /\ call.res.raised = ""
Detected ==
    /\ call.op \in {"detect_fraud_all_claims", "detect_fraud_by_claim_ids"}
    /\ call.res.raised = ""

\* C18: the explanation of a MINIMAL assessment without risk factors has a
\* summary, and the summary states the number of flags, 0; its recommendation
\* is the one that asks for no review, its red flags are none and
\* total_red_flags is 0; and the detection methods attach an explanation,
\* never None, to such an assessment.
C18_MinimalExplanation ==
    /\ (Explained /\ call.arg.risk_level = "MINIMAL" /\ call.arg.risk_factors = <<>>) =>
           /\ call.res.value.summary.text # ""
           /\ call.res.value.summary.num_red_flags.kind = "Some"
           /\ call.res.value.summary.num_red_flags.v = 0
           /\ call.res.value.recommendation
                  = "Approve for standard processing. No additional review required."
           /\ call.res.value.red_flags = <<>>
           /\ call.res.value.total_red_flags = 0
    /\ Detected =>
           \A i \in 1..Len(call.res.value) :
               (call.res.value[i].risk_level = "MINIMAL"
                   /\ call.res.value[i].risk_factors = <<>>) =>
                       call.res.value[i].explanation.kind = "Some"

\* C19: while the process holds no trained classifier, generate_explanation
\* and the service's get_feature_importance and get_model_performance raise
\* instead of returning.
C19_NoArtifactFailsFast ==
    (IsNone(model) /\ call.op \in {"generate_explanation", "get_feature_importance",
                                   "get_model_performance"}) =>
        call.res.raised # ""

Flagged(red_flags, i) == \E k \in 1..Len(red_flags) : red_flags[k].id = i

----------------------------------------------------------------------------
(* Claims on the graph-wide metrics (SpecService) *)

\* C21: betweenness centrality and clustering coefficients are computed at
\* most once for a graph: an extraction request that follows one which
\* computed them on the same, unchanged graph computes neither again.
C21_MetricsComputedOnce ==
    [][(/\ ExtractCalled
        /\ ExtractCalled'
        /\ call.metrics.graph # 0
        /\ call'.metrics.graph = call.metrics.graph
        /\ graphs'[call.metrics.graph] = graphs[call.metrics.graph])
          => /\ ~(call.metrics.betweenness /\ call'.metrics.betweenness)
             /\ ~(call.metrics.clustering /\ call'.metrics.clustering)]_vars

----------------------------------------------------------------------------
(* Claims on the temporal features (SpecTemporal) *)

\* C22: patient_claim_frequency of a row is the number of the patient's
\* claims in the full table over the number of days from the patient's first
\* to last service date, taken as 1 when it is less; a patient with a single
\* claim has frequency 1, one with n claims on one day frequency n.
C22_ClaimFrequency ==
    Extracted =>
        LET F == call.res.value
            df == StoreOf(Extractor)
            frequency == ColumnOf(F, "patient_claim_frequency").vals
        IN  \A i \in 1..Len(F[1].vals) :
                LET claim == RowOf(df, "claim_id", F[1].vals[i])
                    mine == {k \in 1..Len(df) : df[k].patient_id = claim.patient_id}
                    dates == {to_datetime(df[k].service_date) : k \in mine}
                    span == Max(1, Days(MaxOf(dates) - MinOf(dates)))
                IN  /\ frequency[i] * span <= Cardinality(mine) * MaxProb
                    /\ Cardinality(mine) * MaxProb < (frequency[i] + 1) * span

\* C23: is_night of a row is 1 when the service time is before 06:00 or
\* after 20:00 (05:59 and 20:30 are night, 06:00 and 20:00 are not), else 0.
C23_NightIndicator ==
    Extracted =>
        LET F == call.res.value
            df == StoreOf(Extractor)
            night == ColumnOf(F, "is_night").vals
        IN  \A i \in 1..Len(F[1].vals) :
                LET at == RowOf(df, "claim_id", F[1].vals[i]).service_date
                    minute_of_day == at.hour * 60 + at.minute
                IN  night[i] = IF minute_of_day < 6 * 60 \/ minute_of_day > 20 * 60
                               THEN 1 ELSE 0

----------------------------------------------------------------------------
(* Claims on reloads (SpecLoads) *)

\* C24: a scoring request on a constructed service, whatever reloads came
\* before it, works on one data version: the tables and the graph its
\* feature extractor reads are those the loader holds, from which the
\* service selects the claims.
C24_ScoringUsesReloadedData ==
    (DetectCalled /\ load.pc = "idle" /\ call.ready) =>
        /\ Extractor.claims_df.v = data_loader.v.claims_df.v
        /\ Extractor.patients_df.v = data_loader.v.patients_df.v
        /\ Extractor.providers_df.v = data_loader.v.providers_df.v
        /\ graphs[Extractor.graph.v] = graphs[data_loader.v.graph.v]

\* the loader holds the tables of the directory, and their graph
LoadedFrom(dir) ==
    /\ \A t \in Range(TableOrder) :
          /\ data_loader.v[t].kind = "Some"
          /\ data_loader.v[t].v = dir[CsvFile[t]].rows
    /\ data_loader.v.graph.kind = "Some"
    /\ graphs[data_loader.v.graph.v]
          = build_graph(data_loader.v.patients_df.v, data_loader.v.providers_df.v,
                        data_loader.v.claims_df.v)

\* C25: whenever no load is running, the loader's tables and graph are those
\* of one load that succeeded; a load that failed partway has left them as
\* they were before it.
C25_FailedLoadKeepsPrevious ==
    (load.pc = "idle" /\ ~IsNone(data_loader)) =>
        \E dir \in Datasets : LoadedFrom(dir)

----------------------------------------------------------------------------
(* Claims on the assessments of the detection methods (SpecService) *)

\* the ids a detection call hands to the extractor
RequestedIds ==
    IF call.op = "detect_fraud_by_claim_ids" THEN call.arg
    ELSE LET df == data_loader.v.claims_df.v
             claims_df == IF IsNone(call.arg) \/ call.arg.v = 0 THEN df
                          ELSE head(df, call.arg.v)
         IN  [i \in 1..Len(claims_df) |-> claims_df[i].claim_id]

\* row i of a feature frame as a frame of its own
RowFrame(X, i) == [k \in 1..Len(X) |-> Col(X[k].name, <<X[k].vals[i]>>)]

\* C26: the list a detection method returns has one assessment for each
\* extracted feature row, in the order of the claims table whatever the order
\* of the requested ids, and the probability, risk level and risk factors of
\* each assessment are those of the feature row of the claim it names.
C26_AssessmentMatchesItsClaim ==
    (DetectCalled /\ call.res.raised = "" /\ call.extracted) =>
        LET F == extract_all_features(Extractor, graphs, Some(RequestedIds)).value
            X == fillna(Tail(F))
            stored == IsIn(StoreOf(Extractor), RequestedIds)
        IN  /\ Len(call.res.value) = Len(F[1].vals)
            /\ [i \in 1..Len(call.res.value) |-> call.res.value[i].claim_id]
                  = [i \in 1..Len(stored) |-> stored[i].claim_id]
            /\ \A i \in 1..Len(call.res.value) :
                  LET a == call.res.value[i]
                      alone == assess_claims(Self, RowFrame(X, i), <<F[1].vals[i]>>).value[1]
                  IN  /\ a.claim_id = F[1].vals[i]
                      /\ a.fraud_probability = alone.fraud_probability
                      /\ a.risk_level = alone.risk_level
                      /\ a.risk_factors = alone.risk_factors

\* two claims with different assessments, requested in the reverse of the
\* order of the claims table
C26_Witness ==
    /\ call.op = "detect_fraud_by_claim_ids"
    /\ call.res.raised = ""
    /\ call.arg = <<"CLM2", "CLM1">>
    /\ Len(call.res.value) = 2
    /\ call.res.value[1].claim_id = "CLM1"
    /\ call.res.value[2].claim_id = "CLM2"
    /\ call.res.value[1].fraud_probability # call.res.value[2].fraud_probability
    /\ call.res.value[1].risk_factors # call.res.value[2].risk_factors

----------------------------------------------------------------------------
(* Claims on the graph features of a loaded store (SpecService) *)

\* C27: when the extractor's graph is the graph of its tables, every
\* extracted claim has graph_distance 1, patient_degree at least 1 and
\* provider_degree at least 1, so no claim of the store gets the distance 999.
C27_ClaimIsItsOwnEdge ==
    (Extracted /\ StoreLoaded(Extractor)
        /\ graphs[Extractor.graph.v]
              = build_graph(Extractor.patients_df.v, Extractor.providers_df.v,
                            Extractor.claims_df.v)) =>
        \A i \in 1..Len(call.res.value[1].vals) :
            /\ ColumnOf(call.res.value, "graph_distance").vals[i] = 1
            /\ ColumnOf(call.res.value, "patient_degree").vals[i] >= 1
            /\ ColumnOf(call.res.value, "provider_degree").vals[i] >= 1

----------------------------------------------------------------------------
(* Claims on the fraud detection endpoints (SpecEndpoints) *)

ReadinessEndpoints ==
    {"POST /detect", "POST /detect-with-insights", "GET /model/performance",
     "GET /model/feature-importance"}

\* C28: when the service is not ready, POST /detect, POST
\* /detect-with-insights, GET /model/performance and GET
\* /model/feature-importance answer HTTP 503: the 503 raised in the handler
\* reaches the client unchanged.
C28_NotReadyAnswers503 ==
    (call.op \in ReadinessEndpoints /\ ~call.ready) =>
        call.status_code = HTTP_503_SERVICE_UNAVAILABLE

----------------------------------------------------------------------------
(* Claims on authentication (SpecAuth) *)

\* C29: /auth/refresh accepts a refresh token at most once, also when two
\* requests with the same token run concurrently: no token is answered 200
\* twice.
C29_RefreshAtMostOnce ==
    \A i, j \in 1..Len(accepted) : i # j => accepted[i] # accepted[j]

\* a token made by create_refresh_token
IsRefreshToken(token) ==
    /\ token.key = jwt_secret_key
    /\ "type" \in DOMAIN token.payload
    /\ token.payload.type = "refresh"

\* C30: only access tokens authenticate: get_current_user answers 401 to a
\* bearer credential that is a refresh token.
C30_RefreshTokenDoesNotAuthenticate ==
    \A r \in Workers :
        (requests[r].pc = "done" /\ requests[r].op = "get_current_user"
            /\ IsRefreshToken(requests[r].arg)) =>
            requests[r].status_code = HTTP_401_UNAUTHORIZED

====
